---- MODULE Spec2Model ----
(***************************************************************************)
(* State-machine model of the LuckyCat video worker                        *)
(* (luckycat-video/worker-video/src): the keyframe sampler, the caption     *)
(* transcoder, the signed token issuer, and the /upload/url,               *)
(* /upload/direct, /status/:uid, /analyze/:uid and /videos/:id/token       *)
(* request handlers.  Every handler is a process whose position (pc) moves *)
(* from one awaited upstream call to the next; the outcome of each call    *)
(* (a response status, or a rejected fetch) is chosen by the environment.  *)
(*                                                                         *)
(* Units: durations and timestamps are tenths of a second (44 is 4.4 s),   *)
(* so that toFixed(1) and the 0.5 s margin are exact integers.  For the    *)
(* durations up to 60 s the IEEE-754 results of the source equal the       *)
(* rational ones (with the odd denominators count - 1 used here there is   *)
(* no tie at one decimal); the products duration * p of the longer         *)
(* durations are computed as binary64 computes them (FloorProduct).        *)
(***************************************************************************)
EXTENDS Integers, Sequences, FiniteSets, TLC

VARIABLES sampler, upload, analyze, tokenReq, issuer, statusReq, direct, vtt,
          env, synth, race, store, capReq, signer, videosReq, checks

vars == <<sampler, upload, analyze, tokenReq, issuer, statusReq, direct, vtt,
          env, synth, race, store, capReq, signer, videosReq, checks>>

Absent == "absent"

(***************************************************************************)
(* Generic helpers                                                         *)
(***************************************************************************)

\* Variant: a status test that accepts 200 alone.
IsOkOnly200(status) == status = 200

\* Response.ok of the fetch API: the status is in 200..299.
IsOk(status) == status >= 200 /\ status <= 299

\* A fetch either resolves with a response or rejects (network failure).
Resp(status) == [kind |-> "resp", status |-> status]
Throw == [kind |-> "throw", status |-> 0]
\* The call has not been made.
NoOutcome == [kind |-> "none", status |-> 0]
FetchOutcomes(statuses) == {Resp(s) : s \in statuses} \cup {Throw}

\* The body an upstream sends with a non-2xx answer to operation op.
ErrBody(op, status) == [from |-> op, status |-> status]
NoBody == [from |-> Absent, status |-> 0]

\* Number of calls of operation op in a call log.
Count(calls, op) == Cardinality({i \in 1..Len(calls) : calls[i].op = op})

\* Variant: a fetch that is sent again (a retrying wrapper).
issueTwice(r, call) == [r EXCEPT !.calls = Append(Append(r.calls, call), call)]

\* await fetch(...): one upstream request, recorded in the request's call log.
issue(r, call) == [r EXCEPT !.calls = Append(r.calls, call)]

Min(a, b) == IF a <= b THEN a ELSE b
Max(a, b) == IF a >= b THEN a ELSE b

(***************************************************************************)
(* Keyframe sampler: services/openrouter-analysis.ts, generateThumbnailUrls *)
(***************************************************************************)

\* Largest duration (tenths of a second) the sampler is applied to.
MaxDurationTenths == 1800

\* duration?: number.  A number of tenths of a second, or undefined.
Undefined == [def |-> FALSE, v |-> 0]
Num(n) == [def |-> TRUE, v |-> n]

DefaultCount == 8
SafetyMargin == 5
MinTime == 1
ShortLimit == 100
MediumLimit == 600

FallbackTimes == <<10, 50, 100, 200, 300, 450, 600, 900>>
\* percentages, in hundredths
Percentages == <<2, 10, 20, 35, 50, 65, 80, 95>>

\* Number(t.toFixed(1)) for t = num/den tenths of a second: the nearest tenth.
ToFixed1(num, den) == (2 * num + den) \div (2 * den)

\* Math.floor(t) for t = num/den tenths of a second: whole seconds, in tenths.
MathFloor(num, den) == 10 * (num \div (10 * den))

RECURSIVE Pow2(_)
Pow2(n) == IF n = 0 THEN 1 ELSE 2 * Pow2(n - 1)

\* 2^s modulo m
RECURSIVE Pow2Mod(_, _)
Pow2Mod(s, m) == IF s = 0 THEN 1 % m ELSE (2 * Pow2Mod(s - 1, m)) % m

\* The binary exponent e of num/den > 0: 2^e <= num/den < 2^(e+1).
RECURSIVE BinExp(_, _)
BinExp(num, den) ==
    IF num >= 2 * den THEN BinExp(num, 2 * den) + 1
    ELSE IF num < den THEN BinExp(2 * num, den) - 1
    ELSE 0

\* The binary64 number nearest to num/den (a 53-bit significand): it is
\* num/den + (a/den) * 2^-s.  No tie arises for a denominator of 10 or 100.
RoundErr(num, den) ==
    LET s == 52 - BinExp(num, den)
        r == (num * Pow2Mod(s, den)) % den
    IN  [a |-> IF 2 * r <= den THEN 0 - r ELSE den - r, s |-> s]

\* Math.floor(duration * p) for duration = v/10 and the literal p = pct/100,
\* in tenths of a second.  The exact product N + x of the two binary64
\* operands differs from v * pct / 1000 by less than 1/1000, so the floors
\* differ only when v * pct / 1000 is a whole number N and the product is
\* rounded to the binary64 number below N: when x is below minus half the
\* spacing of the numbers under N (at a tie the even significand, N, wins).
\* All quantities are scaled by 1000 * 2^60.
FloorProduct(v, pct) ==
    LET q == v * pct
        N == q \div 1000
        d == RoundErr(v, 10)
        p == RoundErr(pct, 100)
        x == v * p.a * Pow2(60 - p.s) + pct * d.a * Pow2(60 - d.s)
        e == BinExp(N, 1)
        half == 1000 * Pow2(IF N = Pow2(e) THEN e + 6 ELSE e + 7)
        below == x < 0 - half \/ (x = 0 - half /\ d.a * p.a < 0)
    IN  IF q % 1000 # 0 THEN 10 * N
        ELSE IF below THEN 10 * (N - 1)
        ELSE 10 * N

\* const maxTime = Math.max(0, duration - 0.5)
maxTimeOf(v) == Max(0, v - SafetyMargin)

\* The tier chosen by the duration, before the clamping step.
tierTimes(count, v) ==
    IF v <= ShortLimit
    THEN [i \in 1..count |->
            Max(MinTime, ToFixed1(maxTimeOf(v) * (i - 1), count - 1))]
    ELSE IF v <= MediumLimit
    THEN [i \in 1..count |-> MathFloor(maxTimeOf(v) * (i - 1), count - 1)]
    ELSE [i \in 1..Min(count, Len(Percentages)) |->
            FloorProduct(v, Percentages[i])]

\* times[0] = Math.max(0.1, times[0]);
\* times[times.length - 1] = Math.min(times[times.length - 1], Math.floor(maxTime))
clampTimes(times, v) ==
    LET first == [times EXCEPT ![1] = Max(MinTime, times[1])]
    IN  [first EXCEPT ![Len(first)] =
            Min(first[Len(first)], MathFloor(maxTimeOf(v), 1))]

\* Variant: the clamping step applied to the fallback timestamps too.
generateThumbnailTimesClamped(count, duration) ==
    clampTimes(IF ~duration.def \/ duration.v <= 0
               THEN SubSeq(FallbackTimes, 1, Min(count, Len(FallbackTimes)))
               ELSE tierTimes(count, duration.v),
               duration.v)

\* The timestamps generateThumbnailUrls puts into its URLs.
generateThumbnailTimes(count, duration) ==
    IF ~duration.def \/ duration.v <= 0
    THEN SubSeq(FallbackTimes, 1, Min(count, Len(FallbackTimes)))
    ELSE clampTimes(tierTimes(count, duration.v), duration.v)

\* `${baseUrl}?time=${t}s&width=640` on https://videodelivery.net/<uid>/...
generateThumbnailUrls(streamUid, count, duration) ==
    LET times == generateThumbnailTimes(count, duration)
    IN  [i \in 1..Len(times) |->
            [host |-> "videodelivery.net", uid |-> streamUid,
             time |-> times[i], width |-> 640]]

\* Thumbnail URLs of the same form at given timestamps.
generateThumbnailUrlsAt(times) ==
    [i \in 1..Len(times) |->
        [host |-> "videodelivery.net", uid |-> "uid", time |-> times[i], width |-> 640]]

DurationInputs ==
    {Undefined} \cup {Num(n) : n \in (0 - 2)..MaxDurationTenths}

SamplerIdle == [pc |-> "idle", count |-> 0, duration |-> Undefined, times |-> <<>>]

\* count: fewer than the eight default timestamps, the default, and more.
SamplerCounts == {4, DefaultCount, 10}

InitSampler ==
    sampler \in {[pc |-> "input", count |-> n, duration |-> d,
                  times |-> <<>>] : n \in SamplerCounts, d \in DurationInputs}

\* One application of the sampler to the drawn input.
Sample ==
    /\ sampler.pc = "input"
    /\ sampler' = [sampler EXCEPT
            !.pc = "done",
            !.times = generateThumbnailTimes(sampler.count, sampler.duration)]
    /\ UNCHANGED <<upload, analyze, tokenReq, issuer, statusReq, direct, vtt, env, synth,
                 race, store,
                 capReq, signer, videosReq, checks>>


(***************************************************************************)
(* POST /upload/url: index.ts, lines 379-527                               *)
(***************************************************************************)

\* 100 * 1024 * 1024
MaxStreamBytes == 104857600

\* A Content-Length header: absent (null), or the decimal string of n.
NoLength == [present |-> FALSE, n |-> 0]
Length(n) == [present |-> TRUE, n |-> n]

\* parseInt of a Content-Length header that is present.
parseInt(h) == h.n

\* A Location header: absent, or a URL whose last path segment (query
\* removed) is seg.
NoLocation == [present |-> FALSE, seg |-> ""]
Location(seg) == [present |-> TRUE, seg |-> seg]

\* What the store answers to a successful copy.
CopyResult == [uid |-> "uid-copy", thumbnail |-> "thumb-copy"]

NoResponse ==
    [status |-> 0, error |-> Absent, details |-> NoBody, success |-> FALSE,
     uid |-> Absent, thumbnail |-> Absent, method |-> Absent, size |-> NoLength]

\* c.json({ error, details }, status)
ErrorResponse(status, error, details) ==
    [NoResponse EXCEPT !.status = status, !.error = error, !.details = details]

\* The catch block of the handler: 500 with the exception's message.
Caught(error) == ErrorResponse(500, error, ErrBody("exception", 0))

Call(op) == [op |-> op, length |-> NoLength, signed |-> Absent]

UploadIdle ==
    [pc |-> "idle", url |-> "", dmId |-> Absent, calls |-> <<>>,
     copyStatus |-> 0, sourceStatus |-> 0, tusStatus |-> 0, patchStatus |-> 0,
     length |-> NoLength, size |-> 0,
     uploadUrl |-> NoLocation, mediaId |-> Absent, response |-> NoResponse]

Finish(u, response) == [u EXCEPT !.pc = "done", !.response = response]

\* await c.req.json(); if (!body.url) return 400
uploadStart(u, jsonOk, url, dmId) ==
    IF ~jsonOk THEN Finish(u, Caught("Upload failed"))
    ELSE IF url = "" THEN Finish(u, ErrorResponse(400, "Missing URL", NoBody))
    ELSE [u EXCEPT !.pc = "copy", !.url = url, !.dmId = dmId]

\* The copy attempt (lines 391-426).
uploadCopy(u, o) ==
    LET v == [issue(u, Call("copy")) EXCEPT !.copyStatus = o.status]
    IN  IF o.kind = "throw" THEN Finish(v, Caught("Upload failed"))
        ELSE IF IsOk(o.status)
        THEN Finish(v, [NoResponse EXCEPT
                !.status = 200, !.success = TRUE, !.uid = CopyResult.uid,
                !.thumbnail = CopyResult.thumbnail, !.method = "copy"])
        ELSE [v EXCEPT !.pc = "source"]

\* Variant: a ceiling that also rejects a source of exactly 100 MiB.
tooLargeInclusive(length) == length.present /\ parseInt(length) >= MaxStreamBytes

\* if (contentLength && parseInt(contentLength) > 100 * 1024 * 1024)
tooLarge(length) == length.present /\ parseInt(length) > MaxStreamBytes

\* details: `Source returned ${videoResponse.status}`, a text made from the
\* status; the body of the source's answer is not read.
SourceReturned(status) == [from |-> "Source returned", status |-> status]

\* The source download and the size check (lines 428-452).
uploadSource(u, o, length, size) ==
    LET v == [issue(u, Call("source_fetch")) EXCEPT !.sourceStatus = o.status]
    IN  IF o.kind = "throw" THEN Finish(v, Caught("Upload failed"))
        ELSE IF ~IsOk(o.status)
        THEN Finish(v, ErrorResponse(502, "Failed to fetch source video",
                                     SourceReturned(o.status)))
        ELSE IF tooLarge(length)
        THEN Finish([v EXCEPT !.length = length],
                    [ErrorResponse(413,
                            "Video too large for stream-through upload",
                            ErrBody("max_size_note", 0))
                        EXCEPT !.size = length])
        ELSE [v EXCEPT !.pc = "tus_create", !.length = length, !.size = size]

\* The session-create request: Upload-Length only when the source sent a
\* Content-Length; Upload-Metadata requiresignedurls ZmFsc2U= (false).
tusCreateCall(u) ==
    [op |-> "tus_create", length |-> u.length, signed |-> "false"]

\* Creating the resumable-upload session (lines 454-488).
uploadTusCreate(u, o, location, mediaId) ==
    IF u.dmId = "nonlatin1"
    THEN Finish(u, Caught("Upload failed"))      \* btoa(body.meta.dm_id) throws
    ELSE
    LET v == [issue(u, tusCreateCall(u)) EXCEPT !.tusStatus = o.status]
        \* headers.get('location') || headers.get('stream-media-id')
        uploadUrl == IF location.present THEN location
                     ELSE IF mediaId # Absent THEN Location(mediaId)
                     ELSE NoLocation
    IN  IF o.kind = "throw" THEN Finish(v, Caught("Upload failed"))
        ELSE IF ~IsOk(o.status)
        THEN Finish(v, ErrorResponse(502, "Failed to create upload URL",
                                     ErrBody("tus_create", o.status)))
        ELSE IF ~uploadUrl.present
        THEN Finish(v, ErrorResponse(502, "No upload URL in TUS response", NoBody))
        ELSE [v EXCEPT !.pc = "tus_patch", !.uploadUrl = uploadUrl,
                       !.mediaId = mediaId]

\* The PATCH request carries the whole buffered body.
tusPatchCall(u) == [op |-> "tus_patch", length |-> Length(u.size), signed |-> Absent]

\* const uid = streamMediaId || uploadUrl.split('/').pop()?.split('?')[0] || 'unknown'
extractUid(mediaId, uploadUrl) ==
    IF mediaId # Absent THEN mediaId
    ELSE IF uploadUrl.seg # "" THEN uploadUrl.seg
    ELSE "unknown"

\* Buffering the body and writing it in one PATCH (lines 490-521).
uploadTusPatch(u, readOk, o) ==
    IF ~readOk
    THEN Finish(u, Caught("Upload failed"))      \* videoResponse.arrayBuffer() rejects
    ELSE
    LET v == [issue(u, tusPatchCall(u)) EXCEPT !.patchStatus = o.status]
    IN  IF o.kind = "throw" THEN Finish(v, Caught("Upload failed"))
        ELSE IF ~IsOk(o.status)
        THEN Finish(v, ErrorResponse(502, "Video upload failed",
                                     ErrBody("tus_patch", o.status)))
        ELSE Finish(v, [NoResponse EXCEPT
                !.status = 200, !.success = TRUE,
                !.uid = extractUid(u.mediaId, u.uploadUrl),
                !.method = "stream-through", !.size = u.length])

\* The statuses an upstream may answer with.
Statuses == {200, 201, 302, 400, 404, 500}

SourceSizes == {0, 1024, MaxStreamBytes, MaxStreamBytes + 1}
Locations == {NoLocation, Location("uid-tus"), Location("")}
MediaIds == {Absent, "uid-media"}

UploadStart ==
    /\ upload.pc = "idle"
    /\ \E jsonOk \in BOOLEAN, url \in {"", "https://source/video.mp4"},
          dmId \in {Absent, "latin1", "nonlatin1"} :
            upload' = uploadStart(upload, jsonOk, url, dmId)
    /\ UNCHANGED <<sampler, analyze, tokenReq, issuer, statusReq, direct, vtt, env, synth,
                 race, store,
                 capReq, signer, videosReq, checks>>

UploadCopy ==
    /\ upload.pc = "copy"
    /\ \E o \in FetchOutcomes(Statuses) : upload' = uploadCopy(upload, o)
    /\ UNCHANGED <<sampler, analyze, tokenReq, issuer, statusReq, direct, vtt, env, synth,
                 race, store,
                 capReq, signer, videosReq, checks>>

UploadSource ==
    /\ upload.pc = "source"
    /\ \E o \in FetchOutcomes(Statuses), size \in SourceSizes :
          \E length \in {NoLength, Length(size)} :
            upload' = uploadSource(upload, o, length, size)
    /\ UNCHANGED <<sampler, analyze, tokenReq, issuer, statusReq, direct, vtt, env, synth,
                 race, store,
                 capReq, signer, videosReq, checks>>

UploadTusCreate ==
    /\ upload.pc = "tus_create"
    /\ \E o \in FetchOutcomes(Statuses), location \in Locations,
          mediaId \in MediaIds :
            upload' = uploadTusCreate(upload, o, location, mediaId)
    /\ UNCHANGED <<sampler, analyze, tokenReq, issuer, statusReq, direct, vtt, env, synth,
                 race, store,
                 capReq, signer, videosReq, checks>>

UploadTusPatch ==
    /\ upload.pc = "tus_patch"
    /\ \E readOk \in BOOLEAN, o \in FetchOutcomes(Statuses) :
            upload' = uploadTusPatch(upload, readOk, o)
    /\ UNCHANGED <<sampler, analyze, tokenReq, issuer, statusReq, direct, vtt, env, synth,
                 race, store,
                 capReq, signer, videosReq, checks>>


(***************************************************************************)
(* Caption transcoder: utils/vtt-parser.ts, parseVTT                       *)
(*                                                                         *)
(* A text is a sequence of tokens: the line terminators, the space, the    *)
(* double quote, the arrow of a timing line, the format magic, and words   *)
(* (timestamps included) that contain none of these.                       *)
(***************************************************************************)

NL == "\n"
CR == "\r"
SP == " "
QUOTE == "\""
ARROW == "-->"
MAGIC == "WEBVTT"

\* What String.prototype.trim removes.
WhiteSpace == {SP, NL, CR, "\t"}

\* Length of the match of /\r?\n\r?\n/ at position i of text, or 0.
BlankLineAt(text, i) ==
    LET a == IF i <= Len(text) /\ text[i] = CR THEN 1 ELSE 0
        j == i + a
        b == IF j + 1 <= Len(text) /\ text[j + 1] = CR THEN 1 ELSE 0
    IN  IF /\ j + b + 1 <= Len(text)
           /\ text[j] = NL
           /\ text[j + b + 1] = NL
        THEN a + b + 2 ELSE 0

\* Length of the match of /\r?\n/ at position i of text, or 0.
LineEndAt(text, i) ==
    IF text[i] = NL THEN 1
    ELSE IF text[i] = CR /\ i + 1 <= Len(text) /\ text[i + 1] = NL THEN 2
    ELSE 0

\* Length of the match of separator sep at position i: the two regular
\* expressions, or a literal token.
MatchLen(sep, text, i) ==
    CASE sep = "blank" -> BlankLineAt(text, i)
      [] sep = "line" -> LineEndAt(text, i)
      [] OTHER -> IF text[i] = sep THEN 1 ELSE 0

RECURSIVE SplitFrom(_, _, _, _)
SplitFrom(text, sep, i, cur) ==
    IF i > Len(text) THEN <<cur>>
    ELSE LET m == MatchLen(sep, text, i)
         IN  IF m > 0 THEN <<cur>> \o SplitFrom(text, sep, i + m, <<>>)
             ELSE SplitFrom(text, sep, i + 1, Append(cur, text[i]))

\* String.prototype.split
Split(text, sep) == SplitFrom(text, sep, 1, <<>>)

\* String.prototype.includes, for a token
Includes(text, token) == \E i \in 1..Len(text) : text[i] = token

RECURSIVE TrimStart(_)
TrimStart(text) ==
    IF text # <<>> /\ Head(text) \in WhiteSpace THEN TrimStart(Tail(text)) ELSE text

RECURSIVE TrimEnd(_)
TrimEnd(text) ==
    IF text # <<>> /\ text[Len(text)] \in WhiteSpace
    THEN TrimEnd(SubSeq(text, 1, Len(text) - 1)) ELSE text

\* String.prototype.trim
Trim(text) == TrimEnd(TrimStart(text))

\* Array.prototype.filter(Boolean) on strings: the non-empty ones.
RECURSIVE FilterNonEmpty(_)
FilterNonEmpty(texts) ==
    IF texts = <<>> THEN <<>>
    ELSE (IF Head(texts) = <<>> THEN <<>> ELSE <<Head(texts)>>)
            \o FilterNonEmpty(Tail(texts))

\* Array.prototype.join
RECURSIVE Join(_, _)
Join(texts, sep) ==
    IF texts = <<>> THEN <<>>
    ELSE IF Len(texts) = 1 THEN texts[1]
    ELSE texts[1] \o sep \o Join(Tail(texts), sep)

\* lines.findIndex(l => l.includes('-->')), counted from 1; 0 when none.
timeLineIndex(lines) ==
    IF \E i \in 1..Len(lines) : Includes(lines[i], ARROW)
    THEN CHOOSE i \in 1..Len(lines) :
            /\ Includes(lines[i], ARROW)
            /\ \A j \in 1..(i - 1) : ~Includes(lines[j], ARROW)
    ELSE 0

\* The body of the loop over the blocks (lines 19-36): the segments, none
\* or one, that a block adds.
blockSegments(block) ==
    LET split == Split(block, "line")
        lines == FilterNonEmpty([i \in 1..Len(split) |-> Trim(split[i])])
        idx == timeLineIndex(lines)
        parts == Split(lines[idx], ARROW)
        start == Trim(parts[1])
        end == Trim(parts[2])
        text == Join(SubSeq(lines, idx + 1, Len(lines)), <<SP>>)
    IN  IF Includes(block, MAGIC) THEN <<>>
        ELSE IF Len(lines) < 2 THEN <<>>
        ELSE IF idx = 0 THEN <<>>
        ELSE IF start # <<>> /\ end # <<>> /\ text # <<>>
        THEN <<[start |-> start, end |-> end, text |-> text]>>
        ELSE <<>>

\* Variant: a loop that ends at the first block without a timing line.
RECURSIVE segmentsOfAbort(_)
segmentsOfAbort(blocks) ==
    IF blocks = <<>> THEN <<>>
    ELSE IF ~Includes(Head(blocks), ARROW) /\ ~Includes(Head(blocks), MAGIC)
    THEN <<>>
    ELSE blockSegments(Head(blocks)) \o segmentsOfAbort(Tail(blocks))

RECURSIVE segmentsOf(_)
segmentsOf(blocks) ==
    IF blocks = <<>> THEN <<>>
    ELSE blockSegments(Head(blocks)) \o segmentsOf(Tail(blocks))

\* Variant: the text put into the row as it is.
EscapeQuotesNone(text) == text

\* s.text.replace(/"/g, '""')
RECURSIVE EscapeQuotes(_)
EscapeQuotes(text) ==
    IF text = <<>> THEN <<>>
    ELSE (IF Head(text) = QUOTE THEN <<QUOTE, QUOTE>> ELSE <<Head(text)>>)
            \o EscapeQuotes(Tail(text))

csvTitle == <<"Audio Captions and Timestamps Reference for Video", NL>>
csvHeader == <<"Start Time, End Time, Caption Text", NL>>

\* `${s.start}, ${s.end}, "${text}"`
csvRow(s) ==
    s.start \o <<",", SP>> \o s.end \o <<",", SP, QUOTE>>
        \o EscapeQuotes(s.text) \o <<QUOTE>>

csvRows(segments) ==
    Join([i \in 1..Len(segments) |-> csvRow(segments[i])], <<NL>>)

\* `\n\n--- Total segments: ${n}, Last timestamp: ${lastSegment.end} ---`
durationNote(segments) ==
    IF Len(segments) > 0
    THEN <<NL, NL, "--- Total segments: ", ToString(Len(segments)),
           ", Last timestamp: ">> \o segments[Len(segments)].end \o <<" ---">>
    ELSE <<>>

\* segments.map(s => `[${s.start}] ${s.text}`).join('\n')
plainText(segments) ==
    Join([i \in 1..Len(segments) |->
            <<"[">> \o segments[i].start \o <<"]", SP>> \o segments[i].text],
         <<NL>>)

parseVTT(vttText) ==
    LET blocks == Split(vttText, "blank")
        segments == segmentsOf(blocks)
    IN  [segments |-> segments,
         plainText |-> plainText(segments),
         csvText |-> csvTitle \o csvHeader \o csvRows(segments)
                        \o durationNote(segments)]

\* Largest number of blocks after the header block of a drawn track.
MaxBlocks == 3

\* The timestamps of the block at position k of a track.
StartStamps == <<"00:00:01.000", "00:00:04.000", "00:00:07.000", "00:00:10.000">>
EndStamps == <<"00:00:03.500", "00:00:06.500", "00:00:09.500", "00:00:12.500">>

\* The blocks a track is drawn from.  A cue block is well formed by the
\* WebVTT grammar: an optional identifier line, a timing line (with
\* optional settings), and one or more lines of text in which anything but
\* the arrow may occur.  The blocks without a timing line are a comment and
\* stray text; the malformed blocks are a cue without text and a timing
\* line without an end.
CueKinds == {"plain", "identified", "two-line", "quoted", "settings", "magic-word"}
UntimedKinds == {"note", "stray"}
BlockKinds == CueKinds \cup UntimedKinds \cup {"no-text", "no-end"}

\* The lines of the block of kind kind at position k.
blockLines(kind, k) ==
    LET timing == <<StartStamps[k], SP, ARROW, SP, EndStamps[k]>>
    IN  CASE kind = "plain" -> <<timing, <<"hello", SP, "world">>>>
          [] kind = "identified" -> <<<<"cue", ToString(k)>>, timing, <<"hello">>>>
          [] kind = "two-line" -> <<timing, <<"first", SP, "line">>, <<"second">>>>
          [] kind = "quoted" ->
                <<timing, <<"she", SP, "said", SP, QUOTE, "hi", QUOTE>>>>
          [] kind = "settings" ->
                <<timing \o <<SP, "align:start">>, <<"aligned">>>>
          [] kind = "magic-word" ->
                <<timing, <<"about", SP, MAGIC, SP, "files">>>>
          [] kind = "note" -> <<<<"NOTE", SP, "a", SP, "comment">>>>
          [] kind = "stray" -> <<<<"stray">>, <<"text">>>>
          [] kind = "no-text" -> <<<<"cue", ToString(k)>>, timing>>
          [] kind = "no-end" -> <<<<StartStamps[k], SP, ARROW>>, <<"unfinished">>>>

\* The segment a cue block stands for: its timestamps (the end with any
\* settings that follow it on the timing line) and its text lines joined
\* by one space.
cueSegment(kind, k) ==
    LET lines == blockLines(kind, k)
        t == IF kind = "identified" THEN 2 ELSE 1
    IN  [start |-> <<StartStamps[k]>>,
         end |-> SubSeq(lines[t], 5, Len(lines[t])),
         text |-> Join(SubSeq(lines, t + 1, Len(lines)), <<SP>>)]

\* The text of a track: the header block, then each block after a blank
\* line, every line ended by eol except the last, which is ended only when
\* the track has a final line terminator.
trackText(kinds, eol, finalEol) ==
    LET blocks == <<<<<<MAGIC>>>>>> \o [k \in 1..Len(kinds) |-> blockLines(kinds[k], k)]
    IN  Join([k \in 1..Len(blocks) |-> Join(blocks[k], eol)], eol \o eol)
            \o (IF finalEol THEN eol ELSE <<>>)

Tracks ==
    UNION {[1..n -> BlockKinds] : n \in 0..MaxBlocks}

NoParsed == [segments |-> <<>>, plainText |-> <<>>, csvText |-> <<>>]

VttIdle == [pc |-> "idle", kinds |-> <<>>, vttText |-> <<>>, result |-> NoParsed]

InitVtt ==
    vtt \in {[pc |-> "input", kinds |-> kinds,
              vttText |-> trackText(kinds, eol, finalEol),
              result |-> NoParsed] :
                kinds \in Tracks, eol \in {<<NL>>, <<CR, NL>>},
                finalEol \in BOOLEAN}

\* One application of parseVTT to the drawn track.
Parse ==
    /\ vtt.pc = "input"
    /\ vtt' = [vtt EXCEPT !.pc = "done", !.result = parseVTT(vtt.vttText)]
    /\ UNCHANGED <<sampler, upload, analyze, tokenReq, issuer, statusReq, direct, env, synth,
                 race, store,
                 capReq, signer, videosReq, checks>>

(***************************************************************************)
(* analyzeVideo: services/openrouter-analysis.ts, lines 39-136             *)
(***************************************************************************)

\* The fields of interface AnalysisResult.
RequiredFields ==
    {"title", "description", "category", "tags", "content_rating",
     "language", "mood", "confidence"}

\* A JSON value the model may answer with: an object having some of the
\* fields, or null.
JsonObject(fields) == [kind |-> "object", fields |-> fields]
JsonNull == [kind |-> "null", fields |-> {}]
NoResult == [kind |-> Absent, fields |-> {}]

\* choices[0].message.content: missing/empty, or a text that is or is not
\* well-formed JSON, possibly wrapped in a markdown fence.
NoContent == [present |-> FALSE, fence |-> "none", wellFormed |-> FALSE,
              value |-> NoResult]
Content(fence, wellFormed, value) ==
    [present |-> TRUE, fence |-> fence, wellFormed |-> wellFormed, value |-> value]

\* content.replace(/^```json\s*/, '').replace(/^```\s*/, '')
\*        .replace(/\s*```$/, '').trim()
cleanContent(content) == [content EXCEPT !.fence = "none"]

\* Variant: a text that does not parse is taken for a complete result.
JsonParseLenient(text) ==
    IF text.fence = "none" /\ text.wellFormed
    THEN [tag |-> "ok", value |-> text.value]
    ELSE [tag |-> "ok", value |-> JsonObject(RequiredFields)]

\* JSON.parse: the value of a well-formed text; a fenced or malformed text
\* is a SyntaxError.
JsonParse(text) ==
    IF text.fence = "none" /\ text.wellFormed
    THEN [tag |-> "ok", value |-> text.value]
    ELSE [tag |-> "throw", value |-> NoResult]

\* Variant: every supplied URL is sent.
imageContentAll(thumbnailUrls) == thumbnailUrls

\* request.thumbnailUrls.slice(0, 8)
MaxImages == 8
imageContent(thumbnailUrls) == SubSeq(thumbnailUrls, 1, Min(MaxImages, Len(thumbnailUrls)))

\* What analyzeVideo does with the answer of the model backend: it returns
\* { result, debug } or throws an Error with a message.
analyzeVideo(o, content) ==
    IF o.kind = "throw"
    THEN [tag |-> "throw", message |-> ErrBody("exception", 0), result |-> NoResult]
    ELSE IF ~IsOk(o.status)
    THEN [tag |-> "throw", message |-> ErrBody("chat_completion", o.status),
          result |-> NoResult]
    ELSE IF ~content.present
    THEN [tag |-> "throw", message |-> ErrBody("no_content", 0), result |-> NoResult]
    ELSE LET parsed == JsonParse(cleanContent(content))
         IN  IF parsed.tag = "ok"
             THEN [tag |-> "ok", message |-> NoBody, result |-> parsed.value]
             ELSE [tag |-> "throw", message |-> ErrBody("invalid_json", 0),
                   result |-> NoResult]

(***************************************************************************)
(* POST /analyze/:uid: index.ts, lines 554-710                             *)
(***************************************************************************)

NoUpdate == [tag |-> "none", status |-> 0]
UpdateStatus(tag, status) == [tag |-> tag, status |-> status]

NoAnalyzeResponse ==
    [status |-> 0, error |-> Absent, details |-> NoBody, success |-> FALSE,
     result |-> NoResult, cfUpdateStatus |-> NoUpdate]

AnalyzeError(status, error, details) ==
    [NoAnalyzeResponse EXCEPT !.status = status, !.error = error, !.details = details]

\* c.json({ success: true, uid, duration, result, debug, cfUpdateStatus })
AnalyzeSuccess(result, cfUpdateStatus) ==
    [NoAnalyzeResponse EXCEPT !.status = 200, !.success = TRUE,
        !.result = result, !.cfUpdateStatus = cfUpdateStatus]

\* A request of the handler: the operation, the timestamp of the thumbnail
\* it asks for, and what a chat completion carries (the timestamps of its
\* images and the transcript).
ACall(op, time, images) ==
    [op |-> op, time |-> time, images |-> images, captions |-> Absent]
NoTime == 0 - 1

AnalyzeIdle ==
    [pc |-> "idle", calls |-> <<>>, infoOutcome |-> NoOutcome,
     vttOutcome |-> NoOutcome, modelOutcome |-> NoOutcome,
     updateOutcome |-> NoOutcome, duration |-> Undefined, captions |-> Absent,
     thumbnailUrls |-> <<>>, idx |-> 0, validatedUrls |-> <<>>,
     content |-> NoContent, analysis |-> NoResult, response |-> NoAnalyzeResponse]

AFinish(a, response) == [a EXCEPT !.pc = "done", !.response = response]

\* if (!c.env.OPENROUTER_API_KEY) return 500
analyzeStart(a, hasKey) ==
    IF ~hasKey
    THEN AFinish(a, AnalyzeError(500, "OpenRouter API key not configured", NoBody))
    ELSE [a EXCEPT !.pc = "info"]

\* Fetching the record for its duration (lines 564-582).
analyzeInfo(a, o, duration) ==
    LET b == [issue(a, ACall("get_record", NoTime, <<>>)) EXCEPT !.infoOutcome = o]
    IN  IF o.kind = "throw"
        THEN AFinish(b, AnalyzeError(500, "Analysis failed", ErrBody("exception", 0)))
        ELSE [b EXCEPT !.pc = "captions",
                       !.duration = IF IsOk(o.status) THEN duration ELSE Undefined]

\* Variant: a caption fetch whose failure fails the request.
analyzeCaptionsFatal(a, o, rawVtt) ==
    LET b == [issue(a, ACall("caption_fetch", NoTime, <<>>)) EXCEPT !.vttOutcome = o]
    IN  IF o.kind = "throw" \/ ~IsOk(o.status)
        THEN AFinish(b, AnalyzeError(500, "Analysis failed", ErrBody("exception", 0)))
        ELSE [b EXCEPT
              !.captions = parseVTT(rawVtt).csvText,
              !.thumbnailUrls = generateThumbnailUrls("uid", DefaultCount, a.duration),
              !.idx = 1,
              !.pc = "validate"]

\* Fetching the English captions, then sampling the keyframes (lines 584-620).
\* captionsText is the CSV text of the track, or undefined.
analyzeCaptions(a, o, rawVtt) ==
    [issue(a, ACall("caption_fetch", NoTime, <<>>)) EXCEPT
              !.vttOutcome = o,
              !.captions = IF o.kind = "resp" /\ IsOk(o.status)
                           THEN parseVTT(rawVtt).csvText ELSE Absent,
              !.thumbnailUrls = generateThumbnailUrls("uid", DefaultCount, a.duration),
              !.idx = 1,
              !.pc = "validate"]

\* Variant: the zero-survivor check left out.
noThumbnailsNever(validatedUrls) == FALSE

\* if (validatedUrls.length === 0)
noThumbnails(validatedUrls) == Len(validatedUrls) = 0

\* Variant: an existence check that is sent again when it fails.
analyzeValidateRetry(a, o) ==
    LET url == a.thumbnailUrls[a.idx]
        ok == o.kind = "resp" /\ IsOk(o.status)
        kept == IF ok THEN Append(a.validatedUrls, url) ELSE a.validatedUrls
        head == ACall("head", url.time, <<>>)
        b == [(IF ok THEN issue(a, head) ELSE issueTwice(a, head)) EXCEPT
                       !.validatedUrls = kept,
                       !.idx = a.idx + 1]
    IN  IF a.idx < Len(a.thumbnailUrls) THEN b
        ELSE IF noThumbnails(kept)
        THEN AFinish(b, AnalyzeError(422, "No video thumbnails available",
                                     ErrBody("all_thumbnails_failed", 0)))
        ELSE [b EXCEPT !.pc = "model"]

\* Variant: a candidate whose check throws is kept.
analyzeValidateKeepThrown(a, o) ==
    LET url == a.thumbnailUrls[a.idx]
        kept == IF o.kind = "throw" \/ IsOk(o.status)
                THEN Append(a.validatedUrls, url) ELSE a.validatedUrls
        b == [issue(a, ACall("head", url.time, <<>>)) EXCEPT
                       !.validatedUrls = kept,
                       !.idx = a.idx + 1]
    IN  IF a.idx < Len(a.thumbnailUrls) THEN b
        ELSE IF noThumbnails(kept)
        THEN AFinish(b, AnalyzeError(422, "No video thumbnails available",
                                     ErrBody("all_thumbnails_failed", 0)))
        ELSE [b EXCEPT !.pc = "model"]

\* One iteration of the validation loop and, after the last one, the check
\* for zero validated thumbnails (lines 622-641).
analyzeValidate(a, o) ==
    LET url == a.thumbnailUrls[a.idx]
        kept == IF o.kind = "resp" /\ IsOk(o.status)
                THEN Append(a.validatedUrls, url) ELSE a.validatedUrls
        b == [issue(a, ACall("head", url.time, <<>>)) EXCEPT
                       !.validatedUrls = kept,
                       !.idx = a.idx + 1]
    IN  IF a.idx < Len(a.thumbnailUrls) THEN b
        ELSE IF noThumbnails(kept)
        THEN AFinish(b, AnalyzeError(422, "No video thumbnails available",
                                     ErrBody("all_thumbnails_failed", 0)))
        ELSE [b EXCEPT !.pc = "model"]

\* Building updatePayload reads analysis.result.title ... and calls
\* analysis.result.confidence.toString(): a TypeError when the result is null
\* or has no confidence.
payloadThrows(result) ==
    result.kind = "null" \/ "confidence" \notin result.fields

\* The chat-completion request of analyzeVideo (lines 44-80): the prompt with
\* the transcript, if any, and the images of imageContent.
chatCompletionCall(thumbnailUrls, captions) ==
    LET images == imageContent(thumbnailUrls)
    IN  [ACall("chat_completion", NoTime, [i \in 1..Len(images) |-> images[i].time])
            EXCEPT !.captions = captions]

\* The model call, and the synchronous part of the write-back up to its
\* fetch (lines 646-669).
analyzeModel(a, o, content) ==
    LET b == [issue(a, chatCompletionCall(a.validatedUrls, a.captions)) EXCEPT
                       !.modelOutcome = o,
                       !.content = IF o.kind = "resp" /\ IsOk(o.status)
                                   THEN content ELSE NoContent]
        r == analyzeVideo(o, content)
    IN  IF r.tag = "throw"
        THEN AFinish(b, AnalyzeError(500, "Analysis failed", r.message))
        ELSE IF payloadThrows(r.result)
        THEN AFinish([b EXCEPT !.analysis = r.result],
                     AnalyzeSuccess(r.result, UpdateStatus("error", 0)))
        ELSE [b EXCEPT !.pc = "update", !.analysis = r.result]

\* Variant: a write-back whose failure fails the request.
analyzeUpdateFatal(a, o) ==
    LET b == [issue(a, ACall("update_metadata", NoTime, <<>>)) EXCEPT
                    !.updateOutcome = o]
    IN  IF o.kind = "throw"
        THEN AFinish(b, AnalyzeError(500, "Analysis failed", ErrBody("exception", 0)))
        ELSE IF ~IsOk(o.status)
        THEN AFinish(b, AnalyzeError(502, "Metadata update failed",
                                     ErrBody("update_metadata", o.status)))
        ELSE AFinish(b, AnalyzeSuccess(a.analysis, UpdateStatus("success", 0)))

\* Variant: a write-back whose fetch rejects leaves the initial 'skipped'.
analyzeUpdateSkipped(a, o) ==
    LET b == [issue(a, ACall("update_metadata", NoTime, <<>>)) EXCEPT
                    !.updateOutcome = o]
        cfUpdateStatus ==
            IF o.kind = "throw" THEN UpdateStatus("skipped", 0)
            ELSE IF ~IsOk(o.status) THEN UpdateStatus("failed", o.status)
            ELSE UpdateStatus("success", 0)
    IN  AFinish(b, AnalyzeSuccess(a.analysis, cfUpdateStatus))

\* The update-metadata call and the response (lines 671-704).
analyzeUpdate(a, o) ==
    LET b == [issue(a, ACall("update_metadata", NoTime, <<>>)) EXCEPT
                    !.updateOutcome = o]
        cfUpdateStatus ==
            IF o.kind = "throw" THEN UpdateStatus("error", 0)
            ELSE IF ~IsOk(o.status) THEN UpdateStatus("failed", o.status)
            ELSE UpdateStatus("success", 0)
    IN  AFinish(b, AnalyzeSuccess(a.analysis, cfUpdateStatus))

AnalyzeStatuses == {200, 404, 500}

\* The caption tracks the store may answer with: one cue, and no cue.
CaptionTracks ==
    {trackText(<<"plain">>, <<NL>>, TRUE), trackText(<<>>, <<NL>>, TRUE)}
AnalyzeDurations == {Undefined, Num(10), Num(44), Num(300), Num(650)}

ModelContents ==
    {NoContent, Content("none", FALSE, NoResult), Content("none", TRUE, JsonNull)}
    \cup {Content(f, TRUE, JsonObject(RequiredFields)) : f \in {"none", "json", "plain"}}
    \cup {Content("none", TRUE, JsonObject(RequiredFields \ {f})) : f \in RequiredFields}

AnalyzeStart ==
    /\ analyze.pc = "idle"
    /\ analyze' = analyzeStart(analyze, env.OPENROUTER_API_KEY # Absent)
    /\ UNCHANGED <<sampler, upload, tokenReq, issuer, statusReq, direct, vtt, env, synth,
                 race, store,
                 capReq, signer, videosReq, checks>>

AnalyzeInfo ==
    /\ analyze.pc = "info"
    /\ \E o \in FetchOutcomes(AnalyzeStatuses), d \in AnalyzeDurations :
            analyze' = analyzeInfo(analyze, o, d)
    /\ UNCHANGED <<sampler, upload, tokenReq, issuer, statusReq, direct, vtt, env, synth,
                 race, store,
                 capReq, signer, videosReq, checks>>

AnalyzeCaptions ==
    /\ analyze.pc = "captions"
    /\ \E o \in FetchOutcomes(AnalyzeStatuses), rawVtt \in CaptionTracks :
            analyze' = analyzeCaptions(analyze, o, rawVtt)
    /\ UNCHANGED <<sampler, upload, tokenReq, issuer, statusReq, direct, vtt, env, synth,
                 race, store,
                 capReq, signer, videosReq, checks>>

AnalyzeValidate ==
    /\ analyze.pc = "validate"
    /\ \E o \in FetchOutcomes(AnalyzeStatuses) : analyze' = analyzeValidate(analyze, o)
    /\ UNCHANGED <<sampler, upload, tokenReq, issuer, statusReq, direct, vtt, env, synth,
                 race, store,
                 capReq, signer, videosReq, checks>>

AnalyzeModel ==
    /\ analyze.pc = "model"
    /\ \E o \in FetchOutcomes(AnalyzeStatuses), content \in ModelContents :
            analyze' = analyzeModel(analyze, o, content)
    /\ UNCHANGED <<sampler, upload, tokenReq, issuer, statusReq, direct, vtt, env, synth,
                 race, store,
                 capReq, signer, videosReq, checks>>

AnalyzeUpdate ==
    /\ analyze.pc = "update"
    /\ \E o \in FetchOutcomes(AnalyzeStatuses) : analyze' = analyzeUpdate(analyze, o)
    /\ UNCHANGED <<sampler, upload, tokenReq, issuer, statusReq, direct, vtt, env, synth,
                 race, store,
                 capReq, signer, videosReq, checks>>

(***************************************************************************)
(* analyzeVideo applied to a request of its own                            *)
(***************************************************************************)

\* Largest number of thumbnail URLs of a drawn request.
MaxUrls == 10

\* The thumbnail URLs of a request: n URLs with increasing timestamps, or
\* with decreasing ones.
UrlLists ==
    {generateThumbnailUrlsAt([i \in 1..n |-> 10 * i]) : n \in 0..MaxUrls}
    \cup {generateThumbnailUrlsAt([i \in 1..n |-> 10 * (n + 1 - i)]) : n \in 0..MaxUrls}

NoReturn == [tag |-> "none", message |-> NoBody, result |-> NoResult]

SynthIdle ==
    [pc |-> "idle", thumbnailUrls |-> <<>>, captions |-> Absent, calls |-> <<>>,
     returned |-> NoReturn]

InitSynth ==
    synth \in {[SynthIdle EXCEPT !.pc = "input", !.thumbnailUrls = l] : l \in UrlLists}

\* One application of analyzeVideo to the drawn request.
AnalyzeVideo ==
    /\ synth.pc = "input"
    /\ \E o \in FetchOutcomes(AnalyzeStatuses), content \in ModelContents :
            synth' = [issue(synth, chatCompletionCall(synth.thumbnailUrls,
                                                      synth.captions)) EXCEPT
                        !.pc = "done",
                        !.returned = analyzeVideo(o, content)]
    /\ UNCHANGED <<sampler, upload, analyze, tokenReq, issuer, statusReq, direct, vtt,
                 env, race, store,
                 capReq, signer, videosReq, checks>>

(***************************************************************************)
(* Two POST /analyze/:uid requests for one uid, and the store's record     *)
(***************************************************************************)

Racers == {1, 2}

RaceIdle == [r \in Racers |-> AnalyzeIdle]

\* The keys of updatePayload.meta (lines 661-669); JSON.stringify leaves out
\* a key whose value is undefined.
updatePayload(result) ==
    {"ai_generated", "ai_confidence"}
    \cup (IF "title" \in result.fields THEN {"name"} ELSE {})
    \cup (IF "description" \in result.fields THEN {"description"} ELSE {})
    \cup (IF "tags" \in result.fields THEN {"tags"} ELSE {})

\* The metadata of the record, and the writes the store applied: who wrote,
\* what, and the requests in flight at that moment.
NoMeta == {}
StoreIdle == [meta |-> NoMeta, applied |-> <<>>]

\* Variant: a store that keeps the metadata of the first write.
applyUpdateFirst(st, write) ==
    [meta |-> IF st.applied = <<>> THEN write.meta ELSE st.meta,
     applied |-> Append(st.applied, write)]

\* The store applies the POST of lines 671-681: the payload's meta becomes
\* the record's metadata.
applyUpdate(st, write) ==
    [meta |-> write.meta, applied |-> Append(st.applied, write)]

InFlight == {q \in Racers : race[q].pc \notin {"idle", "done"}}

\* What the upstreams answer in the race: the record and the captions may
\* be missing, every thumbnail exists, and the model answers with one of two
\* results.
RaceStatuses == {200, 500}
RaceContents ==
    {Content("none", TRUE, JsonObject(RequiredFields)),
     Content("none", TRUE, JsonObject(RequiredFields \ {"description"}))}

RaceStart ==
    /\ \E r \in Racers :
            /\ race[r].pc = "idle"
            /\ race' = [race EXCEPT
                    ![r] = analyzeStart(race[r], env.OPENROUTER_API_KEY # Absent)]
    /\ UNCHANGED <<sampler, upload, analyze, tokenReq, issuer, statusReq, direct, vtt,
                 env, synth, store,
                 capReq, signer, videosReq, checks>>

RaceInfo ==
    /\ \E r \in Racers, s \in RaceStatuses :
            /\ race[r].pc = "info"
            /\ race' = [race EXCEPT ![r] = analyzeInfo(race[r], Resp(s), Num(300))]
    /\ UNCHANGED <<sampler, upload, analyze, tokenReq, issuer, statusReq, direct, vtt,
                 env, synth, store,
                 capReq, signer, videosReq, checks>>

RaceCaptions ==
    /\ \E r \in Racers, s \in RaceStatuses :
            /\ race[r].pc = "captions"
            /\ race' = [race EXCEPT
                    ![r] = analyzeCaptions(race[r], Resp(s),
                                           trackText(<<"plain">>, <<NL>>, TRUE))]
    /\ UNCHANGED <<sampler, upload, analyze, tokenReq, issuer, statusReq, direct, vtt,
                 env, synth, store,
                 capReq, signer, videosReq, checks>>

RaceValidate ==
    /\ \E r \in Racers :
            /\ race[r].pc = "validate"
            /\ race' = [race EXCEPT ![r] = analyzeValidate(race[r], Resp(200))]
    /\ UNCHANGED <<sampler, upload, analyze, tokenReq, issuer, statusReq, direct, vtt,
                 env, synth, store,
                 capReq, signer, videosReq, checks>>

RaceModel ==
    /\ \E r \in Racers, s \in RaceStatuses, content \in RaceContents :
            /\ race[r].pc = "model"
            /\ race' = [race EXCEPT ![r] = analyzeModel(race[r], Resp(s), content)]
    /\ UNCHANGED <<sampler, upload, analyze, tokenReq, issuer, statusReq, direct, vtt,
                 env, synth, store,
                 capReq, signer, videosReq, checks>>

\* The write-back: the store applies a write it answers with 2xx, and may or
\* may not have applied one whose fetch rejects.
RaceUpdate ==
    /\ \E r \in Racers, o \in FetchOutcomes(RaceStatuses), written \in BOOLEAN :
            /\ race[r].pc = "update"
            /\ o.kind = "resp" => (written <=> IsOk(o.status))
            /\ race' = [race EXCEPT ![r] = analyzeUpdate(race[r], o)]
            /\ store' = IF written
                        THEN applyUpdate(store,
                                [by |-> r, meta |-> updatePayload(race[r].analysis),
                                 during |-> InFlight])
                        ELSE store
    /\ UNCHANGED <<sampler, upload, analyze, tokenReq, issuer, statusReq, direct, vtt,
                 env, synth,
                 capReq, signer, videosReq, checks>>

(***************************************************************************)
(* POST /analyze/:uid with the answer to each existence check kept         *)
(***************************************************************************)

\* What the delivery host answers to a HEAD request, and what the other
\* upstreams answer here: the record is found, there are no captions, the
\* model gives a complete result and the store accepts the write-back.
HeadOutcomes == FetchOutcomes({200, 404})

KeyframesStart ==
    /\ analyze.pc = "idle"
    /\ analyze' = analyzeStart(analyze, env.OPENROUTER_API_KEY # Absent)
    /\ UNCHANGED <<sampler, upload, tokenReq, issuer, statusReq, direct, vtt,
                 env, synth, race, store, capReq, signer, videosReq, checks>>

KeyframesInfo ==
    /\ analyze.pc = "info"
    /\ \E d \in {Num(300), Num(44)} : analyze' = analyzeInfo(analyze, Resp(200), d)
    /\ UNCHANGED <<sampler, upload, tokenReq, issuer, statusReq, direct, vtt,
                 env, synth, race, store, capReq, signer, videosReq, checks>>

KeyframesCaptions ==
    /\ analyze.pc = "captions"
    /\ analyze' = analyzeCaptions(analyze, Resp(404), <<>>)
    /\ UNCHANGED <<sampler, upload, tokenReq, issuer, statusReq, direct, vtt,
                 env, synth, race, store, capReq, signer, videosReq, checks>>

\* An existence check; checks holds the answers in the order of the
\* candidates.
KeyframesValidate ==
    /\ analyze.pc = "validate"
    /\ \E o \in HeadOutcomes :
            /\ analyze' = analyzeValidate(analyze, o)
            /\ checks' = Append(checks, o)
    /\ UNCHANGED <<sampler, upload, tokenReq, issuer, statusReq, direct, vtt,
                 env, synth, race, store, capReq, signer, videosReq>>

KeyframesModel ==
    /\ analyze.pc = "model"
    /\ analyze' = analyzeModel(analyze, Resp(200),
                               Content("none", TRUE, JsonObject(RequiredFields)))
    /\ UNCHANGED <<sampler, upload, tokenReq, issuer, statusReq, direct, vtt,
                 env, synth, race, store, capReq, signer, videosReq, checks>>

KeyframesUpdate ==
    /\ analyze.pc = "update"
    /\ analyze' = analyzeUpdate(analyze, Resp(200))
    /\ UNCHANGED <<sampler, upload, tokenReq, issuer, statusReq, direct, vtt,
                 env, synth, race, store, capReq, signer, videosReq, checks>>

(***************************************************************************)
(* Signed token issuer: services/stream-signed-url.ts                      *)
(***************************************************************************)

\* PEM material: the label of its BEGIN/END lines ("none" when it has no
\* such lines) and what is between them.  The empty material is a missing
\* secret.
Pem(label, body) == [label |-> label, body |-> body]
MissingPem == Pem("none", "")
PemLabels == {"RSA PRIVATE KEY", "PRIVATE KEY", "none"}
PemBodies == {"pkcs8", "pkcs1", "notbase64", ""}
Pems == {Pem(l, b) : l \in PemLabels, b \in PemBodies}

NoKey == "no-key"
PrivateKey == "rsa-private-key"

\* importPemKey: only the RSA PRIVATE KEY lines are removed, so any other
\* label stays in the text and atob rejects it; atob rejects what is not
\* base64; crypto.subtle.importKey('pkcs8', ...) rejects what is not PKCS#8.
importPemKey(pem) ==
    IF pem.label = "PRIVATE KEY" \/ pem.body = "notbase64"
    THEN [tag |-> "throw", key |-> NoKey]
    ELSE IF pem.body = "pkcs8"
    THEN [tag |-> "ok", key |-> PrivateKey]
    ELSE [tag |-> "throw", key |-> NoKey]

VideoIds == {"vid-1", "vid-2", "vid-nonlatin1"}

\* JSON.stringify of the header and of the payload: the text of the value,
\* and whether all its code points are at most 0xFF.
stringifyHeader(header) == [json |-> header, latin1 |-> TRUE]
stringifyPayload(payload) ==
    [json |-> payload, latin1 |-> payload.sub # "vid-nonlatin1"]

\* base64UrlEncode(str): the base64url text of str, or btoa's
\* InvalidCharacterError when str is not Latin-1.
base64UrlEncode(str) ==
    IF str.latin1 THEN [tag |-> "ok", b64url |-> str.json]
    ELSE [tag |-> "throw", b64url |-> str.json]

NoPayload == [sub |-> Absent, kid |-> Absent, exp |-> 0, nbf |-> 0, downloadable |-> FALSE]
NoToken == [header |-> [alg |-> Absent, kid |-> Absent], payload |-> NoPayload,
            signature |-> NoKey]

\* Variant: a failed key import is ignored and the token is left unsigned.
signJwtUnsigned(header, payload, pemKey) ==
    LET encodedHeader == base64UrlEncode(stringifyHeader(header))
        encodedPayload == base64UrlEncode(stringifyPayload(payload))
        key == importPemKey(pemKey)
    IN  IF encodedHeader.tag = "throw" \/ encodedPayload.tag = "throw"
        THEN [tag |-> "throw", token |-> NoToken]
        ELSE [tag |-> "ok",
              token |-> [header |-> encodedHeader.b64url,
                         payload |-> encodedPayload.b64url,
                         signature |-> key.key]]

\* signJwt: `${encodedHeader}.${encodedPayload}.${encodedSignature}`, the
\* signature made by crypto.subtle.sign with the imported key.
signJwt(header, payload, pemKey) ==
    LET encodedHeader == base64UrlEncode(stringifyHeader(header))
        encodedPayload == base64UrlEncode(stringifyPayload(payload))
        key == importPemKey(pemKey)
    IN  IF encodedHeader.tag = "throw" \/ encodedPayload.tag = "throw"
           \/ key.tag = "throw"
        THEN [tag |-> "throw", token |-> NoToken]
        ELSE [tag |-> "ok",
              token |-> [header |-> encodedHeader.b64url,
                         payload |-> encodedPayload.b64url,
                         signature |-> key.key]]

ClockSkew == 60
DefaultTtl == 7200

\* The JWT header (lines 39-43).
tokenHeader(keyId) == [alg |-> "RS256", kid |-> keyId]

\* Variant: nbf without the clock-skew backdate.
tokenPayloadNoBackdate(videoId, keyId, now, expiresInSeconds, downloadable) ==
    [sub |-> videoId, kid |-> keyId, exp |-> now + expiresInSeconds,
     nbf |-> now, downloadable |-> downloadable]

\* The JWT payload (lines 46-56).
tokenPayload(videoId, keyId, now, expiresInSeconds, downloadable) ==
    [sub |-> videoId, kid |-> keyId, exp |-> now + expiresInSeconds,
     nbf |-> now - ClockSkew, downloadable |-> downloadable]

\* A time value in milliseconds, kept as k * 1000 + r with 0 <= r < 1000.
Times1000(n) == [k |-> n, r |-> 0]

\* The proleptic Gregorian date of day z since 1970-01-01.
CivilFromDays(z) ==
    LET zz == z + 719468
        era == zz \div 146097
        doe == zz - era * 146097
        yoe == (doe - doe \div 1460 + doe \div 36524 - doe \div 146096) \div 365
        doy == doe - (365 * yoe + yoe \div 4 - yoe \div 100)
        mp == (5 * doy + 2) \div 153
        d == doy - (153 * mp + 2) \div 5 + 1
        m == IF mp < 10 THEN mp + 3 ELSE mp - 9
        y == yoe + era * 400 + (IF m <= 2 THEN 1 ELSE 0)
    IN  [year |-> y, month |-> m, day |-> d]

\* new Date(ms).toISOString(): YYYY-MM-DDTHH:mm:ss.sssZ
toISOString(ms) ==
    LET date == CivilFromDays(ms.k \div 86400)
        sod == ms.k % 86400
    IN  [year |-> date.year, month |-> date.month, day |-> date.day,
         hour |-> sod \div 3600, minute |-> (sod % 3600) \div 60,
         second |-> sod % 60, milli |-> ms.r]

NoIso == [year |-> 0, month |-> 0, day |-> 0, hour |-> 0, minute |-> 0,
          second |-> 0, milli |-> 0]
NoUrl == [host |-> Absent, segment |-> NoToken, path |-> Absent, time |-> 0 - 1]

NoSigned == [tag |-> "none", playback_url |-> NoUrl, thumbnail_url |-> NoUrl,
             expires_at |-> NoIso, token |-> NoToken]

Options(videoId, expiresInSeconds, downloadable, thumbnailTime, customDomain) ==
    [videoId |-> videoId, expiresInSeconds |-> expiresInSeconds,
     downloadable |-> downloadable, thumbnailTime |-> thumbnailTime,
     customDomain |-> customDomain]

\* Variant: a thumbnail URL built on the video identifier.
generateSignedUrlRawThumbnail(options, keyId, pem, now) ==
    LET payload == tokenPayload(options.videoId, keyId, now,
                                options.expiresInSeconds, options.downloadable)
        signed == signJwt(tokenHeader(keyId), payload, pem)
        customerSubdomain ==
            IF options.customDomain # Absent THEN options.customDomain
            ELSE "customer-account.cloudflarestream.com"
    IN  IF signed.tag = "throw" THEN [NoSigned EXCEPT !.tag = "throw"]
        ELSE [tag |-> "ok",
              playback_url |-> [host |-> customerSubdomain, segment |-> signed.token,
                                path |-> "manifest/video.m3u8", time |-> 0 - 1],
              thumbnail_url |-> [host |-> customerSubdomain,
                                 segment |-> [id |-> options.videoId],
                                 path |-> "thumbnails/thumbnail.jpg",
                                 time |-> options.thumbnailTime],
              expires_at |-> toISOString(Times1000(payload.exp)),
              token |-> signed.token]

\* generateSignedUrl at clock reading now (epoch seconds).
generateSignedUrl(options, keyId, pem, now) ==
    LET payload == tokenPayload(options.videoId, keyId, now,
                                options.expiresInSeconds, options.downloadable)
        signed == signJwt(tokenHeader(keyId), payload, pem)
        customerSubdomain ==
            IF options.customDomain # Absent THEN options.customDomain
            ELSE "customer-account.cloudflarestream.com"
    IN  IF signed.tag = "throw" THEN [NoSigned EXCEPT !.tag = "throw"]
        ELSE [tag |-> "ok",
              playback_url |-> [host |-> customerSubdomain, segment |-> signed.token,
                                path |-> "manifest/video.m3u8", time |-> 0 - 1],
              thumbnail_url |-> [host |-> customerSubdomain, segment |-> signed.token,
                                 path |-> "thumbnails/thumbnail.jpg",
                                 time |-> options.thumbnailTime],
              expires_at |-> toISOString(Times1000(payload.exp)),
              token |-> signed.token]

\* Clock readings (epoch seconds): 2023-11-14T22:13:20Z, 2024-02-29T23:59:59Z,
\* 2024-12-31T23:59:59Z.
Nows == {1700000000, 1709251199, 1735689599}
Ttls == {1, 60, DefaultTtl, 86400}

IssuerIdle ==
    [pc |-> "idle", options |-> Options("", 0, FALSE, 0 - 1, Absent),
     keyId |-> Absent, pem |-> MissingPem, now |-> 0, result |-> NoSigned]


\* One direct application of generateSignedUrl to drawn inputs.  The issuer
\* and the /videos/:id/token request share nothing; one of them is explored
\* at a time.
Issue ==
    /\ issuer.pc = "idle"
    /\ tokenReq.pc = "idle"
    /\ \E videoId \in VideoIds, ttl \in Ttls, downloadable \in BOOLEAN,
          thumbnailTime \in {0 - 1, 5}, customDomain \in {Absent, "videos.example"},
          keyId \in {"key-1"}, pem \in Pems, now \in Nows :
            issuer' = [pc |-> "done",
                       options |-> Options(videoId, ttl, downloadable,
                                           thumbnailTime, customDomain),
                       keyId |-> keyId, pem |-> pem, now |-> now,
                       result |-> generateSignedUrl(
                                    Options(videoId, ttl, downloadable,
                                            thumbnailTime, customDomain),
                                    keyId, pem, now)]
    /\ UNCHANGED <<sampler, upload, analyze, tokenReq, statusReq, direct, vtt, env, synth,
                 race, store,
                 capReq, signer, videosReq, checks>>

(***************************************************************************)
(* A process serving several generateSignedUrl calls                       *)
(***************************************************************************)

\* Largest number of generateSignedUrl calls of one process.
MaxCalls == 3

\* The calls of the process so far: the inputs of each, whether it executed
\* importPemKey, what the import gave, and how the call ended.
SignerIdle == [log |-> <<>>]

NoImport == [tag |-> "none", key |-> NoKey]

\* Whether signJwt reaches `await importPemKey(pemKey)` (line 93): the two
\* encodings of lines 88-89 did not throw.  The module holds no key between
\* calls (it has no module-level binding but the functions).
reachesImport(header, payload) ==
    /\ base64UrlEncode(stringifyHeader(header)).tag = "ok"
    /\ base64UrlEncode(stringifyPayload(payload)).tag = "ok"

\* One more call of generateSignedUrl in the same process.
SignAgain ==
    /\ Len(signer.log) < MaxCalls
    /\ \E videoId \in VideoIds, now \in Nows :
          LET keyId == env.CLOUDFLARE_STREAM_SIGNING_KEY_ID
              pem == env.CLOUDFLARE_STREAM_SIGNING_KEY_PEM
              payload == tokenPayload(videoId, keyId, now, DefaultTtl, FALSE)
              imported == reachesImport(tokenHeader(keyId), payload)
              result == generateSignedUrl(
                            Options(videoId, DefaultTtl, FALSE, 0 - 1, Absent),
                            keyId, pem, now)
          IN  signer' = [signer EXCEPT !.log = Append(@,
                            [videoId |-> videoId, now |-> now, imported |-> imported,
                             import |-> IF imported THEN importPemKey(pem) ELSE NoImport,
                             result |-> result.tag])]
    /\ UNCHANGED <<sampler, upload, analyze, tokenReq, issuer, statusReq, direct, vtt,
                 env, synth, race, store, capReq, videosReq, checks>>

(***************************************************************************)
(* nakamaAuth (middleware/nakama-auth.ts) and POST /videos/:id/token       *)
(* (index.ts, lines 36-37 and 63-99)                                       *)
(***************************************************************************)

NoTokenResponse ==
    [status |-> 0, error |-> Absent, video_id |-> Absent, user_id |-> Absent,
     playback_url |-> NoUrl, thumbnail_url |-> NoUrl, expires_at |-> NoIso,
     token |-> NoToken]

TokenError(status, error) ==
    [NoTokenResponse EXCEPT !.status = status, !.error = error]

TokenIdle ==
    [pc |-> "idle", calls |-> <<>>, authHeader |-> Absent,
     authOutcome |-> NoOutcome, videoId |-> Absent, user |-> Absent,
     keyId |-> Absent, pem |-> MissingPem, now |-> 0, signed |-> NoSigned,
     response |-> NoTokenResponse]

TFinish(t, response) == [t EXCEPT !.pc = "done", !.response = response]

\* if (!authHeader || !authHeader.startsWith('Bearer ')) return 401
nakamaAuthHeader(t, authHeader, videoId) ==
    LET u == [t EXCEPT !.authHeader = authHeader]
    IN  IF authHeader = Absent \/ authHeader # "Bearer session"
        THEN TFinish(u, TokenError(401, "Missing or invalid Authorization header"))
        ELSE [u EXCEPT !.pc = "auth", !.videoId = videoId]

\* The body of a 2xx answer of GET /v2/account: the account's user id, or
\* Absent for a body that is not JSON or has no user.
Accounts == {"user-1", Absent}

\* Variant: a rejected session is let through as an anonymous user.
nakamaAuthOpen(t, o, account) ==
    LET u == [issue(t, Call("get_account")) EXCEPT !.authOutcome = o]
    IN  IF o.kind = "throw" THEN TFinish(u, TokenError(500, "Authentication failed"))
        ELSE IF ~IsOk(o.status)
        THEN [u EXCEPT !.pc = "handler", !.user = "anonymous"]
        ELSE IF account = Absent
        THEN TFinish(u, TokenError(500, "Authentication failed"))
        ELSE [u EXCEPT !.pc = "handler", !.user = account]

\* Validating the session with the identity provider, then next() (lines
\* 28-53); reading data.user.id of a body without a user throws.
nakamaAuth(t, o, account) ==
    LET u == [issue(t, Call("get_account")) EXCEPT !.authOutcome = o]
    IN  IF o.kind = "throw" THEN TFinish(u, TokenError(500, "Authentication failed"))
        ELSE IF ~IsOk(o.status)
        THEN TFinish(u, TokenError(401, "Invalid or expired session"))
        ELSE IF account = Absent
        THEN TFinish(u, TokenError(500, "Authentication failed"))
        ELSE [u EXCEPT !.pc = "handler", !.user = account]

\* Variant: a test of the key id alone.
keysConfiguredId(keyId, pem) == keyId # Absent

\* if (!c.env.CLOUDFLARE_STREAM_SIGNING_KEY_ID || !c.env.CLOUDFLARE_STREAM_SIGNING_KEY_PEM)
keysConfigured(keyId, pem) == keyId # Absent /\ pem # MissingPem

\* The route handler (lines 63-99).
tokenHandler(t, keyId, pem, now) ==
    LET u == [t EXCEPT !.keyId = keyId, !.pem = pem, !.now = now]
        signedUrl == generateSignedUrl(
                        Options(t.videoId, DefaultTtl, FALSE, 0 - 1, Absent),
                        keyId, pem, now)
    IN  IF ~keysConfigured(keyId, pem)
        THEN TFinish(u, TokenError(500, "Signing keys not configured"))
        ELSE IF signedUrl.tag = "throw"
        THEN TFinish([u EXCEPT !.signed = signedUrl],
                     TokenError(500, "Failed to generate signed URL"))
        ELSE TFinish([u EXCEPT !.signed = signedUrl],
                     [NoTokenResponse EXCEPT
                        !.status = 200, !.video_id = t.videoId, !.user_id = t.user,
                        !.playback_url = signedUrl.playback_url,
                        !.thumbnail_url = signedUrl.thumbnail_url,
                        !.expires_at = signedUrl.expires_at,
                        !.token = signedUrl.token])

TokenStart ==
    /\ tokenReq.pc = "idle"
    /\ issuer.pc = "idle"
    /\ \E authHeader \in {Absent, "Basic abc", "Bearer session"}, videoId \in VideoIds :
            tokenReq' = nakamaAuthHeader(tokenReq, authHeader, videoId)
    /\ UNCHANGED <<sampler, upload, analyze, issuer, statusReq, direct, vtt, env, synth,
                 race, store,
                 capReq, signer, videosReq, checks>>

TokenAuth ==
    /\ tokenReq.pc = "auth"
    /\ \E o \in FetchOutcomes(Statuses), account \in Accounts :
            tokenReq' = nakamaAuth(tokenReq, o, account)
    /\ UNCHANGED <<sampler, upload, analyze, issuer, statusReq, direct, vtt, env, synth,
                 race, store,
                 capReq, signer, videosReq, checks>>

TokenHandle ==
    /\ tokenReq.pc = "handler"
    /\ \E now \in Nows :
            tokenReq' = tokenHandler(tokenReq, env.CLOUDFLARE_STREAM_SIGNING_KEY_ID,
                                     env.CLOUDFLARE_STREAM_SIGNING_KEY_PEM, now)
    /\ UNCHANGED <<sampler, upload, analyze, issuer, statusReq, direct, vtt, env, synth,
                 race, store,
                 capReq, signer, videosReq, checks>>

(***************************************************************************)
(* GET /videos and GET /videos/:id: index.ts, lines 36-60                  *)
(***************************************************************************)

VideosRoutes == {"GET /videos", "GET /videos/:id"}

VideosIdle ==
    [pc |-> "idle", route |-> Absent, calls |-> <<>>, authHeader |-> Absent,
     authOutcome |-> NoOutcome, videoId |-> Absent, user |-> Absent,
     handled |-> FALSE,
     response |-> NoTokenResponse]

\* c.json({ user_id, videos: [], ... }) and c.json({ id, user_id, ... })
videosHandler(v) ==
    TFinish([v EXCEPT !.handled = TRUE],
            [NoTokenResponse EXCEPT
                !.status = 200, !.user_id = v.user,
                !.video_id = IF v.route = "GET /videos/:id" THEN v.videoId ELSE Absent])

VideosStart ==
    /\ videosReq.pc = "idle"
    /\ \E route \in VideosRoutes, authHeader \in {Absent, "Basic abc", "Bearer session"},
          videoId \in VideoIds :
            videosReq' = nakamaAuthHeader([videosReq EXCEPT !.route = route],
                                          authHeader, videoId)
    /\ UNCHANGED <<sampler, upload, analyze, tokenReq, issuer, statusReq, direct, vtt,
                 env, synth, race, store, capReq, signer, checks>>

VideosAuth ==
    /\ videosReq.pc = "auth"
    /\ \E o \in FetchOutcomes(Statuses), account \in Accounts :
            videosReq' = nakamaAuth(videosReq, o, account)
    /\ UNCHANGED <<sampler, upload, analyze, tokenReq, issuer, statusReq, direct, vtt,
                 env, synth, race, store, capReq, signer, checks>>

VideosHandle ==
    /\ videosReq.pc = "handler"
    /\ videosReq' = videosHandler(videosReq)
    /\ UNCHANGED <<sampler, upload, analyze, tokenReq, issuer, statusReq, direct, vtt,
                 env, synth, race, store, capReq, signer, checks>>

(***************************************************************************)
(* POST /upload/direct: index.ts, lines 319-376                            *)
(***************************************************************************)

NoDirectResponse ==
    [status |-> 0, error |-> Absent, details |-> NoBody, success |-> FALSE,
     uid |-> Absent, uploadURL |-> Absent]

DirectError(status, error, details) ==
    [NoDirectResponse EXCEPT !.status = status, !.error = error, !.details = details]

\* What the store answers to a successful direct_upload.
DirectResult == [uid |-> "uid-direct", uploadURL |-> "https://upload/uid-direct"]

DirectIdle ==
    [pc |-> "idle", calls |-> <<>>, outcome |-> NoOutcome,
     response |-> NoDirectResponse]

DFinish(d, response) == [d EXCEPT !.pc = "done", !.response = response]

\* const body = await c.req.json()
directStart(d, jsonOk) ==
    IF ~jsonOk
    THEN DFinish(d, DirectError(500, "Failed to create direct upload URL",
                                ErrBody("exception", 0)))
    ELSE [d EXCEPT !.pc = "create"]

\* The direct_upload request: requireSignedURLs: false.
directUploadCall == [Call("direct_upload") EXCEPT !.signed = "false"]

\* Variant: the session request sent again when it did not succeed.
directCreateTwice(d, o) ==
    LET ok == o.kind = "resp" /\ IsOk(o.status)
        e == [(IF ok THEN issue(d, directUploadCall)
                     ELSE issueTwice(d, directUploadCall)) EXCEPT !.outcome = o]
    IN  IF o.kind = "throw"
        THEN DFinish(e, DirectError(500, "Failed to create direct upload URL",
                                    ErrBody("exception", 0)))
        ELSE IF ~IsOk(o.status)
        THEN DFinish(e, DirectError(502, "Failed to create upload URL",
                                    ErrBody("direct_upload", o.status)))
        ELSE DFinish(e, [NoDirectResponse EXCEPT
                !.status = 200, !.success = TRUE, !.uid = DirectResult.uid,
                !.uploadURL = DirectResult.uploadURL])

\* Creating the direct-upload session and answering (lines 331-367).
directCreate(d, o) ==
    LET e == [issue(d, directUploadCall) EXCEPT !.outcome = o]
    IN  IF o.kind = "throw"
        THEN DFinish(e, DirectError(500, "Failed to create direct upload URL",
                                    ErrBody("exception", 0)))
        ELSE IF ~IsOk(o.status)
        THEN DFinish(e, DirectError(502, "Failed to create upload URL",
                                    ErrBody("direct_upload", o.status)))
        ELSE DFinish(e, [NoDirectResponse EXCEPT
                !.status = 200, !.success = TRUE, !.uid = DirectResult.uid,
                !.uploadURL = DirectResult.uploadURL])

DirectStart ==
    /\ direct.pc = "idle"
    /\ \E jsonOk \in BOOLEAN : direct' = directStart(direct, jsonOk)
    /\ UNCHANGED <<sampler, upload, analyze, tokenReq, issuer, statusReq, vtt, env, synth,
                 race, store,
                 capReq, signer, videosReq, checks>>

DirectCreate ==
    /\ direct.pc = "create"
    /\ \E o \in FetchOutcomes(Statuses) : direct' = directCreate(direct, o)
    /\ UNCHANGED <<sampler, upload, analyze, tokenReq, issuer, statusReq, vtt, env, synth,
                 race, store,
                 capReq, signer, videosReq, checks>>

(***************************************************************************)
(* GET /status/:uid: index.ts, lines 102-234                               *)
(***************************************************************************)

\* The path segment of a delivery URL that names the video: here the raw
\* identifier (the issuer's URLs carry a token record in this place).
RawId(uid) == [id |-> uid]

\* A delivery URL of the store, or null.
NoStreamUrl ==
    [present |-> FALSE, host |-> Absent, segment |-> RawId(Absent),
     path |-> Absent, time |-> 0 - 1]
StreamUrl(host, uid, path, time) ==
    [present |-> TRUE, host |-> host, segment |-> RawId(uid),
     path |-> path, time |-> time]

AccountHost == "customer-account.cloudflarestream.com"

\* data.result of a 2xx get-record answer.
Video(uid, state, readyToStream, duration, hasPlayback, hasThumbnail, errorCode) ==
    [uid |-> uid, state |-> state, readyToStream |-> readyToStream,
     duration |-> duration,
     playback |-> IF hasPlayback
                  THEN StreamUrl("customer-code.cloudflarestream.com", uid,
                                 "manifest/video.m3u8", 0 - 1)
                  ELSE NoStreamUrl,
     thumbnail |-> IF hasThumbnail
                   THEN StreamUrl("customer-code.cloudflarestream.com", uid,
                                  "thumbnails/thumbnail.jpg", 0 - 1)
                   ELSE NoStreamUrl,
     errorReasonCode |-> errorCode]

NoVideo == Video(Absent, Absent, FALSE, Undefined, FALSE, FALSE, Absent)

NoStatusPayload ==
    [uid |-> Absent, state |-> Absent, readyToStream |-> FALSE,
     duration |-> Undefined, thumbnail |-> NoStreamUrl,
     signedPlaybackUrl |-> NoStreamUrl, signedDownloadUrl |-> NoStreamUrl,
     signedThumbnails |-> <<>>, captions |-> <<>>, iframeUrl |-> NoStreamUrl,
     error |-> Absent]

NoStatusResponse ==
    [status |-> 0, error |-> Absent, details |-> NoBody, payload |-> NoStatusPayload]

StatusError(status, error, details) ==
    [NoStatusResponse EXCEPT !.status = status, !.error = error, !.details = details]

StatusIdle ==
    [pc |-> "idle", uid |-> Absent, calls |-> <<>>, video |-> NoVideo,
     recordStatus |-> 0, capOutcome |-> NoOutcome, response |-> NoStatusResponse]

SFinish(s, response) == [s EXCEPT !.pc = "done", !.response = response]

\* const uid = c.req.param('uid')
statusStart(s, uid) == [s EXCEPT !.pc = "record", !.uid = uid]

\* Variant: the store's status handed through.
statusErrorCodeSame(status) == status

\* response.status === 404 ? 404 : 502
statusErrorCode(status) == IF status = 404 THEN 404 ELSE 502

\* The get-record call (lines 113-147).
statusRecord(s, o, video) ==
    LET t == [issue(s, Call("get_record")) EXCEPT !.recordStatus = o.status]
    IN  IF o.kind = "throw"
        THEN SFinish(t, StatusError(500, "Failed to get status",
                                    ErrBody("exception", 0)))
        ELSE IF ~IsOk(o.status)
        THEN SFinish(t, StatusError(statusErrorCode(o.status),
                                    "Video not found or API error",
                                    ErrBody("get_record", o.status)))
        ELSE [t EXCEPT !.pc = "captions", !.video = video]

\* const playbackUrl = video.playback?.hls || null
playbackUrl(video) == video.playback

\* playbackUrl.replace('/manifest/video.m3u8', '/downloads/default.mp4')
downloadUrl(video) ==
    IF playbackUrl(video).present
    THEN [playbackUrl(video) EXCEPT !.path = "downloads/default.mp4"]
    ELSE NoStreamUrl

\* video.thumbnail ? video.thumbnail.split('?')[0] : `https://customer-...`
thumbnailBase(uid, video) ==
    IF video.thumbnail.present THEN video.thumbnail
    ELSE StreamUrl(AccountHost, uid, "thumbnails/thumbnail.jpg", 0 - 1)

StatusCount == 8

\* Array.from({ length: 8 }, (_, i) => (duration * i / 7).toFixed(1))
statusTimes(v) == [i \in 1..StatusCount |-> ToFixed1(v * (i - 1), StatusCount - 1)]

\* The thumbnails of the payload (lines 179-188).
thumbnails(uid, video) ==
    IF video.duration.def /\ video.duration.v # 0
    THEN [i \in 1..StatusCount |->
            [thumbnailBase(uid, video) EXCEPT !.time = statusTimes(video.duration.v)[i]]]
    ELSE <<thumbnailBase(uid, video)>>

\* new URL(playbackUrl).hostname, or the account's host.
domain(video) ==
    IF playbackUrl(video).present THEN playbackUrl(video).host ELSE AccountHost

\* The JSON of the 200 answer (lines 199-225).
statusPayload(uid, video, captions) ==
    [uid |-> video.uid, state |-> video.state,
     readyToStream |-> video.readyToStream, duration |-> video.duration,
     thumbnail |-> video.thumbnail,
     signedPlaybackUrl |-> playbackUrl(video),
     signedDownloadUrl |-> downloadUrl(video),
     signedThumbnails |-> thumbnails(uid, video),
     captions |-> captions,
     iframeUrl |-> IF video.readyToStream
                   THEN StreamUrl(domain(video), video.uid, "iframe", 0 - 1)
                   ELSE NoStreamUrl,
     error |-> video.errorReasonCode]

\* Variant: a caption listing whose failure fails the status call.
statusCaptionsFatal(s, o, list) ==
    LET t == [issue(s, Call("list_captions")) EXCEPT !.capOutcome = o]
    IN  IF o.kind = "throw"
        THEN SFinish(t, StatusError(500, "Failed to get status",
                                    ErrBody("exception", 0)))
        ELSE IF ~IsOk(o.status)
        THEN SFinish(t, StatusError(502, "Video not found or API error",
                                    ErrBody("list_captions", o.status)))
        ELSE SFinish(t, [NoStatusResponse EXCEPT
                !.status = 200, !.payload = statusPayload(s.uid, s.video, list)])

\* The caption listing (lines 149-167) and the answer.
statusCaptions(s, o, list) ==
    LET t == [issue(s, Call("list_captions")) EXCEPT !.capOutcome = o]
        captions == IF o.kind = "resp" /\ IsOk(o.status) THEN list ELSE <<>>
    IN  SFinish(t, [NoStatusResponse EXCEPT
            !.status = 200, !.payload = statusPayload(s.uid, s.video, captions)])

StatusUids == {"uid-1"}

\* The records the store may answer with: being processed (with or without
\* a duration yet), failed, and ready to stream.
StatusVideos(uid) ==
    {Video(uid, "queued", FALSE, Undefined, FALSE, FALSE, Absent),
     Video(uid, "inprogress", FALSE, Num(300), FALSE, TRUE, Absent),
     Video(uid, "error", FALSE, Num(0), FALSE, FALSE, "ERR_NON_VIDEO")}
    \cup {Video(uid, "ready", TRUE, Num(v), TRUE, t, Absent) :
            v \in {10, 44, 100, 300, 650}, t \in BOOLEAN}

CaptionLists == {<<>>, <<"en">>, <<"en", "fr">>}

StatusStart ==
    /\ statusReq.pc = "idle"
    /\ \E uid \in StatusUids : statusReq' = statusStart(statusReq, uid)
    /\ UNCHANGED <<sampler, upload, analyze, tokenReq, issuer, direct, vtt, env, synth,
                 race, store,
                 capReq, signer, videosReq, checks>>

StatusRecord ==
    /\ statusReq.pc = "record"
    /\ \E o \in FetchOutcomes(Statuses), video \in StatusVideos(statusReq.uid) :
            statusReq' = statusRecord(statusReq, o, video)
    /\ UNCHANGED <<sampler, upload, analyze, tokenReq, issuer, direct, vtt, env, synth,
                 race, store,
                 capReq, signer, videosReq, checks>>

StatusCaptions ==
    /\ statusReq.pc = "captions"
    /\ \E o \in FetchOutcomes(Statuses), list \in CaptionLists :
            statusReq' = statusCaptions(statusReq, o, list)
    /\ UNCHANGED <<sampler, upload, analyze, tokenReq, issuer, direct, vtt, env, synth,
                 race, store,
                 capReq, signer, videosReq, checks>>

(***************************************************************************)
(* POST /captions/generate/:uid (index.ts, lines 237-276) and              *)
(* GET /captions/:uid (lines 713-746)                                      *)
(***************************************************************************)

\* A JSON answer: an error with details (the upstream body) or with the
\* upstream status, the store's result, or the transcript in three forms.
NoCaptionsResponse ==
    [status |-> 0, error |-> Absent, details |-> NoBody, upstreamStatus |-> 0,
     success |-> FALSE, vtt |-> <<>>, plainText |-> <<>>, csv |-> <<>>]

CaptionsIdle ==
    [pc |-> "idle", route |-> Absent, calls |-> <<>>, outcome |-> NoOutcome,
     response |-> NoCaptionsResponse]

CFinish(q, response) == [q EXCEPT !.pc = "done", !.response = response]

\* POST /captions/generate/:uid: one generate request to the store; jsonOk
\* tells whether the body of a 2xx answer is JSON.
captionsGenerate(q, o, jsonOk) ==
    LET r == [issue(q, Call("captions_generate")) EXCEPT
                    !.route = "generate", !.outcome = o]
    IN  IF o.kind = "throw" \/ (IsOk(o.status) /\ ~jsonOk)
        THEN CFinish(r, [NoCaptionsResponse EXCEPT
                !.status = 500, !.error = "Internal error generating captions"])
        ELSE IF ~IsOk(o.status)
        THEN CFinish(r, [NoCaptionsResponse EXCEPT
                !.status = 502, !.error = "Failed to trigger caption generation",
                !.details = ErrBody("captions_generate", o.status)])
        ELSE CFinish(r, [NoCaptionsResponse EXCEPT !.status = 200, !.success = TRUE])

\* GET /captions/:uid: one caption fetch; a non-2xx answer is reported by
\* its status, its body is not read.
captionsGet(q, o, rawVtt) ==
    LET r == [issue(q, Call("caption_fetch")) EXCEPT !.route = "get", !.outcome = o]
        parsed == parseVTT(rawVtt)
    IN  IF o.kind = "throw"
        THEN CFinish(r, [NoCaptionsResponse EXCEPT
                !.status = 500, !.error = "Internal server error fetching captions"])
        ELSE IF ~IsOk(o.status)
        THEN CFinish(r, [NoCaptionsResponse EXCEPT
                !.status = 502, !.error = "Failed to fetch captions",
                !.upstreamStatus = o.status])
        ELSE CFinish(r, [NoCaptionsResponse EXCEPT
                !.status = 200, !.vtt = rawVtt,
                !.plainText = parsed.plainText, !.csv = parsed.csvText])

CaptionsGenerate ==
    /\ capReq.pc = "idle"
    /\ \E o \in FetchOutcomes(Statuses), jsonOk \in BOOLEAN :
            capReq' = captionsGenerate(capReq, o, jsonOk)
    /\ UNCHANGED <<sampler, upload, analyze, tokenReq, issuer, statusReq, direct, vtt,
                 env, synth, race, store, signer, videosReq, checks>>

CaptionsGet ==
    /\ capReq.pc = "idle"
    /\ \E o \in FetchOutcomes(Statuses), kinds \in Tracks :
            capReq' = captionsGet(capReq, o, trackText(kinds, <<NL>>, TRUE))
    /\ UNCHANGED <<sampler, upload, analyze, tokenReq, issuer, statusReq, direct, vtt,
                 env, synth, race, store, signer, videosReq, checks>>

(***************************************************************************)
(* Specifications: one per component                                       *)
(***************************************************************************)

\* The Bindings the handlers test (index.ts, lines 8-16): every value set.
FullEnv ==
    [OPENROUTER_API_KEY |-> "or-key",
     CLOUDFLARE_STREAM_SIGNING_KEY_ID |-> "key-1",
     CLOUDFLARE_STREAM_SIGNING_KEY_PEM |-> Pem("PRIVATE KEY", "pkcs8")]

\* A deployment with every value, or with one of them missing.
Configs ==
    {FullEnv,
     [FullEnv EXCEPT !.OPENROUTER_API_KEY = Absent],
     [FullEnv EXCEPT !.CLOUDFLARE_STREAM_SIGNING_KEY_ID = Absent],
     [FullEnv EXCEPT !.CLOUDFLARE_STREAM_SIGNING_KEY_PEM = MissingPem]}

InitRest ==
    /\ upload = UploadIdle
    /\ analyze = AnalyzeIdle
    /\ tokenReq = TokenIdle
    /\ issuer = IssuerIdle
    /\ statusReq = StatusIdle
    /\ direct = DirectIdle
    /\ synth = SynthIdle
    /\ race = RaceIdle
    /\ store = StoreIdle
    /\ capReq = CaptionsIdle
    /\ signer = SignerIdle
    /\ videosReq = VideosIdle
    /\ checks = <<>>

InitIdle == InitRest /\ vtt = VttIdle

SamplerInit == InitSampler /\ InitIdle /\ env = FullEnv
SpecSampler == SamplerInit /\ [][Sample]_vars

Init == sampler = SamplerIdle /\ InitIdle /\ env = FullEnv

\* The model key set or missing.
AnalyzeInit ==
    /\ sampler = SamplerIdle /\ InitIdle
    /\ env \in {[FullEnv EXCEPT !.OPENROUTER_API_KEY = k] : k \in {Absent, "or-key"}}

\* The signing key id set or missing, and the PEM material of any shape.
TokenInit ==
    /\ sampler = SamplerIdle /\ InitIdle
    /\ env \in {[FullEnv EXCEPT !.CLOUDFLARE_STREAM_SIGNING_KEY_ID = k,
                                !.CLOUDFLARE_STREAM_SIGNING_KEY_PEM = p] :
                    k \in {Absent, "key-1"}, p \in Pems}

NextUpload ==
    \/ UploadStart
    \/ UploadCopy
    \/ UploadSource
    \/ UploadTusCreate
    \/ UploadTusPatch
SpecUpload == Init /\ [][NextUpload]_vars

NextAnalyze ==
    \/ AnalyzeStart
    \/ AnalyzeInfo
    \/ AnalyzeCaptions
    \/ AnalyzeValidate
    \/ AnalyzeModel
    \/ AnalyzeUpdate
SpecAnalyze == AnalyzeInit /\ [][NextAnalyze]_vars

NextToken ==
    \/ Issue
    \/ TokenStart
    \/ TokenAuth
    \/ TokenHandle
SpecToken == TokenInit /\ [][NextToken]_vars

NextStatus ==
    \/ StatusStart
    \/ StatusRecord
    \/ StatusCaptions
SpecStatus == Init /\ [][NextStatus]_vars

VttInit == InitVtt /\ sampler = SamplerIdle /\ InitRest /\ env = FullEnv
SpecVtt == VttInit /\ [][Parse]_vars

NextDirect ==
    \/ DirectStart
    \/ DirectCreate

\* One request to one of /upload/url, /upload/direct, /status/:uid and
\* /analyze/:uid.
NextRequest ==
    \/ /\ analyze = AnalyzeIdle /\ statusReq = StatusIdle /\ direct = DirectIdle
       /\ NextUpload
    \/ /\ upload = UploadIdle /\ statusReq = StatusIdle /\ direct = DirectIdle
       /\ NextAnalyze
    \/ /\ upload = UploadIdle /\ analyze = AnalyzeIdle /\ direct = DirectIdle
       /\ NextStatus
    \/ /\ upload = UploadIdle /\ analyze = AnalyzeIdle /\ statusReq = StatusIdle
       /\ NextDirect
SpecRequest == AnalyzeInit /\ [][NextRequest]_vars

NextTokenRequest ==
    \/ TokenStart
    \/ TokenAuth
    \/ TokenHandle

\* One request to one of the five endpoints, in a deployment of Configs.
NextConfig ==
    \/ /\ analyze = AnalyzeIdle /\ statusReq = StatusIdle /\ direct = DirectIdle
       /\ tokenReq = TokenIdle
       /\ NextUpload
    \/ /\ upload = UploadIdle /\ statusReq = StatusIdle /\ direct = DirectIdle
       /\ tokenReq = TokenIdle
       /\ NextAnalyze
    \/ /\ upload = UploadIdle /\ analyze = AnalyzeIdle /\ direct = DirectIdle
       /\ tokenReq = TokenIdle
       /\ NextStatus
    \/ /\ upload = UploadIdle /\ analyze = AnalyzeIdle /\ statusReq = StatusIdle
       /\ tokenReq = TokenIdle
       /\ NextDirect
    \/ /\ upload = UploadIdle /\ analyze = AnalyzeIdle /\ statusReq = StatusIdle
       /\ direct = DirectIdle
       /\ NextTokenRequest
ConfigInit == sampler = SamplerIdle /\ InitIdle /\ env \in Configs
SpecConfig == ConfigInit /\ [][NextConfig]_vars

NextKeyframes ==
    \/ KeyframesStart
    \/ KeyframesInfo
    \/ KeyframesCaptions
    \/ KeyframesValidate
    \/ KeyframesModel
    \/ KeyframesUpdate
SpecKeyframes == Init /\ [][NextKeyframes]_vars

SpecSigner == TokenInit /\ [][SignAgain]_vars

\* One request to one of the three routes under /videos.
NextVideosRequest ==
    \/ VideosStart
    \/ VideosAuth
    \/ VideosHandle
NextVideos ==
    \/ /\ videosReq = VideosIdle
       /\ NextTokenRequest
    \/ /\ tokenReq = TokenIdle
       /\ NextVideosRequest
SpecVideos == ConfigInit /\ [][NextVideos]_vars

NextCaptions ==
    \/ CaptionsGenerate
    \/ CaptionsGet
SpecCaptions == Init /\ [][NextCaptions]_vars

SynthInit ==
    /\ InitSynth
    /\ sampler = SamplerIdle /\ vtt = VttIdle /\ env = FullEnv
    /\ upload = UploadIdle /\ analyze = AnalyzeIdle /\ tokenReq = TokenIdle
    /\ issuer = IssuerIdle /\ statusReq = StatusIdle /\ direct = DirectIdle
    /\ race = RaceIdle /\ store = StoreIdle
    /\ capReq = CaptionsIdle /\ signer = SignerIdle /\ videosReq = VideosIdle
    /\ checks = <<>>
SpecAnalyzeVideo == SynthInit /\ [][AnalyzeVideo]_vars

NextRace ==
    \/ RaceStart
    \/ RaceInfo
    \/ RaceCaptions
    \/ RaceValidate
    \/ RaceModel
    \/ RaceUpdate
SpecRace == Init /\ [][NextRace]_vars


(***************************************************************************)
(* Properties                                                              *)
(***************************************************************************)

\* A 2xx status, as the properties read it.
Is2xx(status) == status \in 200..299

\* The operations of a call log, in order.
Ops(calls) == [i \in 1..Len(calls) |-> calls[i].op]

CopyRejected == upload.copyStatus # 0 /\ ~Is2xx(upload.copyStatus)

StreamThroughOps == <<"copy", "source_fetch", "tus_create", "tus_patch">>

\* C1: in POST /upload/url, once the copy call has returned a non-2xx status
\* the upstream calls of the request are a prefix of copy, source fetch,
\* session creation, payload write, each issued at most once and in that
\* order; the source fetch is issued exactly once (it is the next call while
\* the handler is at it, and has been issued once the handler is past it);
\* no direct-upload session and no second copy is ever issued.
C1_StreamThroughOnce ==
    CopyRejected =>
        /\ Len(upload.calls) <= Len(StreamThroughOps)
        /\ Ops(upload.calls) = SubSeq(StreamThroughOps, 1, Len(upload.calls))
        /\ Count(upload.calls, "copy") = 1
        /\ Count(upload.calls, "direct_upload") = 0
        /\ IF upload.pc = "source"
           THEN Count(upload.calls, "source_fetch") = 0
           ELSE Count(upload.calls, "source_fetch") = 1

\* C1 witness: a rejected copy followed by a completed stream-through.
C1_Witness ==
    /\ CopyRejected
    /\ upload.pc = "done"
    /\ upload.response.method = "stream-through"
    /\ Ops(upload.calls) = StreamThroughOps

\* C2: in POST /upload/url, a payload write (TUS PATCH) is issued only after
\* the copy attempt was made and failed, and only with a payload of at most
\* 100 MiB, whether or not the source response carried a Content-Length.
C2_PatchUnderCeiling ==
    \A i \in 1..Len(upload.calls) :
        upload.calls[i].op = "tus_patch" =>
            /\ CopyRejected
            /\ upload.calls[1].op = "copy"
            /\ upload.calls[i].length.n <= MaxStreamBytes

\* Validation has run over every candidate and none passed.
NoneValidated ==
    /\ Len(analyze.thumbnailUrls) > 0
    /\ analyze.idx > Len(analyze.thumbnailUrls)
    /\ analyze.validatedUrls = <<>>

\* C3: in POST /analyze/:uid, if no candidate keyframe URL passes the
\* existence check, the request ends with a 422 error and no model-backend
\* call (and no write-back) is performed.
C3_NoKeyframes422 ==
    NoneValidated =>
        /\ analyze.pc = "done"
        /\ analyze.response.status = 422
        /\ ~analyze.response.success
        /\ Count(analyze.calls, "chat_completion") = 0
        /\ Count(analyze.calls, "update_metadata") = 0

\* C3 witness: all eight existence checks failed and the request has ended.
C3_Witness ==
    /\ NoneValidated
    /\ Count(analyze.calls, "head") = DefaultCount
    /\ analyze.response.status = 422

\* The model's answer is not valid JSON, or is valid JSON that is not an
\* object holding every required field.
AnswerRejectable ==
    /\ analyze.content.present
    /\ \/ ~analyze.content.wellFormed
       \/ analyze.content.value.kind # "object"
       \/ analyze.content.value.fields # RequiredFields

\* C4: a model response that is not valid JSON, or that omits a required
\* AnalysisResult field, makes POST /analyze/:uid end in an error response;
\* no write-back is attempted for it and no success response carries a
\* partial AnalysisResult.
C4_SchemaRejection ==
    /\ AnswerRejectable =>
          /\ analyze.pc = "done"
          /\ analyze.response.status >= 400
          /\ ~analyze.response.success
    /\ analyze.response.success =>
          analyze.response.result = JsonObject(RequiredFields)

\* C5: in POST /analyze/:uid, once the model's answer has been parsed, the
\* response of the finished request is the success response carrying that
\* result, whatever the metadata update did; the outcome of the update
\* shows only in cfUpdateStatus (success, failed: <status>, or error).
C5_WriteBackNonFatal ==
    (analyze.pc = "done" /\ analyze.analysis # NoResult) =>
        /\ [analyze.response EXCEPT !.cfUpdateStatus = NoUpdate]
             = [status |-> 200, error |-> Absent, details |-> NoBody,
                success |-> TRUE, result |-> analyze.analysis,
                cfUpdateStatus |-> NoUpdate]
        /\ analyze.response.cfUpdateStatus.tag \in {"success", "failed", "error"}
        /\ analyze.response.cfUpdateStatus.tag = "failed" <=>
                analyze.response.cfUpdateStatus.status # 0

\* C5 witness: a complete result whose write-back the store answered with 500.
C5_Witness ==
    /\ analyze.pc = "done"
    /\ analyze.analysis = JsonObject(RequiredFields)
    /\ Count(analyze.calls, "update_metadata") = 1
    /\ analyze.response.cfUpdateStatus = UpdateStatus("failed", 500)
    /\ analyze.response.success

SampledPositive ==
    /\ sampler.pc = "done"
    /\ sampler.count = 8
    /\ sampler.duration.def
    /\ sampler.duration.v > 0

\* C6: for every duration d > 0 and count = 8, the timestamps produced by
\* generateThumbnailUrls are non-decreasing.
C6_NonDecreasing ==
    SampledPositive =>
        \A i \in 1..(Len(sampler.times) - 1) : sampler.times[i] <= sampler.times[i + 1]

\* C7: for every duration d > 0 and count = 8, every timestamp produced by
\* generateThumbnailUrls lies in [0.1, d - 0.5].
C7_WithinBounds ==
    SampledPositive =>
        \A i \in 1..Len(sampler.times) :
            /\ sampler.times[i] >= 1
            /\ sampler.times[i] <= sampler.duration.v - 5

\* No token and no URL built around one.
NothingSigned(r) ==
    /\ r.token = NoToken
    /\ r.playback_url = NoUrl
    /\ r.thumbnail_url = NoUrl

\* Key material WebCrypto can import as a PKCS#8 private key exists.
HasKeyMaterial(pem) == pem # MissingPem /\ pem.body = "pkcs8"

\* Whatever r holds of a token is a token signed with the private key.
Genuine(r) ==
    \/ NothingSigned(r)
    \/ /\ r.token.signature = PrivateKey
       /\ r.playback_url.segment = r.token
       /\ r.thumbnail_url.segment = r.token

\* C8: the issuer fails closed.  When the private key is missing or cannot
\* be imported, generateSignedUrl raises and returns no token or URL, and
\* POST /videos/:id/token answers with an error that holds no token,
\* playback_url or thumbnail_url; every token that is emitted carries a
\* signature made with the imported private key.
C8_FailClosed ==
    /\ (issuer.pc = "done" /\ ~HasKeyMaterial(issuer.pem)) =>
          issuer.result.tag = "throw" /\ NothingSigned(issuer.result)
    /\ (tokenReq.pc = "done" /\ tokenReq.user # Absent
            /\ ~HasKeyMaterial(tokenReq.pem)) =>
          /\ tokenReq.response.status >= 400
          /\ tokenReq.response.error # Absent
          /\ NothingSigned(tokenReq.response)
    /\ Genuine(issuer.result)
    /\ Genuine(tokenReq.response)

\* C8 witness: the handler ran with a configured but unimportable key (a
\* PKCS#1 body) and answered 500.
C8_Witness ==
    /\ tokenReq.pc = "done"
    /\ tokenReq.user # Absent
    /\ tokenReq.keyId # Absent
    /\ tokenReq.pem = Pem("RSA PRIVATE KEY", "pkcs1")
    /\ tokenReq.signed.tag = "throw"
    /\ tokenReq.response.status = 500

\* Days since 1970-01-01 of a proleptic Gregorian date.
DaysFromCivil(y, m, d) ==
    LET yy == IF m <= 2 THEN y - 1 ELSE y
        era == yy \div 400
        yoe == yy - era * 400
        doy == (153 * (IF m > 2 THEN m - 3 ELSE m + 9) + 2) \div 5 + d - 1
        doe == yoe * 365 + yoe \div 4 - yoe \div 100 + doy
    IN  era * 146097 + doe - 719468

\* The instant an ISO-8601 UTC timestamp denotes, in whole epoch seconds.
IsoSeconds(iso) ==
    DaysFromCivil(iso.year, iso.month, iso.day) * 86400
        + iso.hour * 3600 + iso.minute * 60 + iso.second

\* The payload of token t issued for videoId at now with ttl is the claimed one.
PayloadAsClaimed(r, videoId, now, ttl) ==
    /\ r.token.payload.sub = videoId
    /\ r.token.payload.exp = now + ttl
    /\ r.token.payload.nbf = now - 60
    /\ IsoSeconds(r.expires_at) = r.token.payload.exp
    /\ r.expires_at.milli = 0
    /\ r.expires_at.month \in 1..12 /\ r.expires_at.day \in 1..31
    /\ r.expires_at.hour \in 0..23
    /\ ttl = 1 => r.token.payload.exp < now + 2

\* C9: every token issued by generateSignedUrl at time now with TTL ttl has
\* payload sub = videoId, exp = now + ttl and nbf = now - 60, and expires_at
\* denotes the instant exp; so a token with ttl = 1 has exp < now + 2.  The
\* tokens of POST /videos/:id/token are issued with ttl = 7200.
C9_TokenPayload ==
    /\ issuer.result.tag = "ok" =>
          PayloadAsClaimed(issuer.result, issuer.options.videoId, issuer.now,
                           issuer.options.expiresInSeconds)
    /\ tokenReq.response.status = 200 =>
          PayloadAsClaimed(tokenReq.response, tokenReq.videoId, tokenReq.now, 7200)

\* C9 witness: a token issued with ttl = 1 just before the end of February
\* 29th, expiring on the first second of March.
C9_Witness ==
    /\ issuer.result.tag = "ok"
    /\ issuer.options.expiresInSeconds = 1
    /\ issuer.now = 1709251199
    /\ issuer.result.expires_at =
          [year |-> 2024, month |-> 3, day |-> 1, hour |-> 0, minute |-> 0,
           second |-> 0, milli |-> 0]

\* C10: in POST /upload/url, when the copy call returns 2xx the handler
\* returns success with method "copy" and the store's uid and thumbnail at
\* once, with no further upstream call (no source fetch, no session
\* creation, no payload write).
C10_CopySuccessImmediate ==
    Is2xx(upload.copyStatus) =>
        /\ upload.pc = "done"
        /\ upload.response.status = 200
        /\ upload.response.success
        /\ upload.response.method = "copy"
        /\ upload.response.uid = CopyResult.uid
        /\ upload.response.thumbnail = CopyResult.thumbnail
        /\ Ops(upload.calls) = <<"copy">>

\* C10 witness: the store answered the copy with 201.
C10_Witness ==
    /\ upload.copyStatus = 201
    /\ upload.pc = "done"
    /\ upload.response.method = "copy"

\* The source announced more than 100 MiB.
OverCeiling == upload.length.present /\ upload.length.n > MaxStreamBytes

\* C11: in the stream-through path of POST /upload/url, a source whose
\* Content-Length exceeds 104,857,600 makes the request end with 413 after
\* the copy and the source fetch only (no session was created, no payload
\* written); 413 is answered for no other reason, so a Content-Length of
\* exactly 104,857,600 is not rejected.
C11_TooLarge413 ==
    /\ OverCeiling =>
          /\ upload.pc = "done"
          /\ upload.response.status = 413
          /\ ~upload.response.success
          /\ Ops(upload.calls) = <<"copy", "source_fetch">>
    /\ upload.response.status = 413 => OverCeiling
    /\ upload.length = Length(MaxStreamBytes) =>
          upload.pc \in {"tus_create", "tus_patch", "done"}

\* C11 witness: a source announcing 104,857,601 bytes was answered with 413.
C11_Witness ==
    /\ upload.length = Length(MaxStreamBytes + 1)
    /\ upload.sourceStatus = 200
    /\ upload.response.status = 413

\* The upstream answered with a non-2xx status.
Failed(status) == status # 0 /\ ~Is2xx(status)

\* The request ended after calls ops with an error holding details.
EndedWith(ops, details) ==
    /\ upload.pc = "done"
    /\ Ops(upload.calls) = ops
    /\ upload.response.status >= 400
    /\ ~upload.response.success
    /\ upload.response.details = details

\* C12: in the stream-through path of POST /upload/url, a non-2xx answer to
\* the source fetch, to the session creation or to the payload write ends
\* the request: no later upstream call is issued and the error response
\* carries the body of the upstream's failing answer.
C12_StreamThroughTerminal ==
    /\ Failed(upload.sourceStatus) =>
          EndedWith(<<"copy", "source_fetch">>,
                    ErrBody("source_fetch", upload.sourceStatus))
    /\ Failed(upload.tusStatus) =>
          EndedWith(<<"copy", "source_fetch", "tus_create">>,
                    ErrBody("tus_create", upload.tusStatus))
    /\ Failed(upload.patchStatus) =>
          EndedWith(StreamThroughOps, ErrBody("tus_patch", upload.patchStatus))


\* The drawn track is the header block followed by one or more well-formed
\* cue blocks.
WellFormedTrack ==
    /\ vtt.pc = "done"
    /\ Len(vtt.kinds) >= 1
    /\ \A k \in 1..Len(vtt.kinds) : vtt.kinds[k] \in CueKinds

\* The lines of a text, the empty ones left out.
TextLines(text) == FilterNonEmpty(Split(text, NL))

\* C20: for a track made of the header block followed by N >= 1 well-formed
\* cue blocks separated by blank lines, parseVTT returns exactly N segments,
\* the k-th being the k-th cue of the track, and csvText is made of the
\* title line, the header row, exactly N data rows (the k-th starting with
\* the k-th cue's start time) and the summary line.
C20_CuesToSegments ==
    WellFormedTrack =>
        LET n == Len(vtt.kinds)
            csvLines == TextLines(vtt.result.csvText)
        IN  /\ vtt.result.segments = [k \in 1..n |-> cueSegment(vtt.kinds[k], k)]
            /\ Len(csvLines) = n + 3
            /\ \A k \in 1..n : csvLines[k + 2][1] = StartStamps[k]

\* The timestamps of a sequence of URLs.
TimesOf(urls) == [i \in 1..Len(urls) |-> urls[i].time]

\* The timestamps of the existence checks issued so far, in order.
HeadTimes ==
    LET heads == SelectSeq(analyze.calls, LAMBDA c : c.op = "head")
    IN  [i \in 1..Len(heads) |-> heads[i].time]

\* Every upstream operation of the four handlers but the existence check
\* has been issued at most once.
EachOpAtMostOnce ==
    /\ \A op \in {"copy", "source_fetch", "tus_create", "tus_patch"} :
          Count(upload.calls, op) <= 1
    /\ Count(direct.calls, "direct_upload") <= 1
    /\ \A op \in {"get_record", "list_captions"} : Count(statusReq.calls, op) <= 1
    /\ \A op \in {"get_record", "caption_fetch", "chat_completion",
                  "update_metadata"} : Count(analyze.calls, op) <= 1

\* C13 (as stated): within one request to /upload/url, /upload/direct,
\* /status/:uid or /analyze/:uid every upstream operation is issued at most
\* once, and every candidate thumbnail URL is existence-checked at most once.
C13_NoRetry ==
    /\ EachOpAtMostOnce
    /\ \A t \in {HeadTimes[i] : i \in 1..Len(HeadTimes)} :
          Cardinality({i \in 1..Len(HeadTimes) : HeadTimes[i] = t}) <= 1

\* C13 (amended): every upstream operation is issued at most once, and the
\* existence checks are the candidates of the sampler's list, one check per
\* element in the order of the list; a URL is checked as many times as the
\* list holds it (the list repeats timestamps for very short videos), never
\* once more because a check failed.
C13_NoRetryPerCandidate ==
    /\ EachOpAtMostOnce
    /\ Len(HeadTimes) <= Len(analyze.thumbnailUrls)
    /\ HeadTimes = SubSeq(TimesOf(analyze.thumbnailUrls), 1, Len(HeadTimes))
    /\ analyze.pc = "validate" => Len(HeadTimes) = analyze.idx - 1
    /\ analyze.pc \in {"model", "update", "done"} /\ analyze.thumbnailUrls # <<>> =>
          Len(HeadTimes) = Len(analyze.thumbnailUrls)

\* C13 witness: a one-second video, whose candidate list holds the
\* timestamp 0.1 three times, was analyzed after failed checks.
C13_Witness ==
    /\ analyze.pc = "done"
    /\ analyze.duration = Num(10)
    /\ Cardinality({i \in 1..Len(HeadTimes) : HeadTimes[i] = 1}) = 3
    /\ Len(analyze.validatedUrls) < DefaultCount
    /\ Count(analyze.calls, "chat_completion") = 1

\* C14: GET /status/:uid answers a non-2xx get-record with 404 when the
\* store said 404 and with 502 otherwise; the answer's details are the
\* store's body and it holds none of the status payload.
C14_StatusErrorMapping ==
    Failed(statusReq.recordStatus) =>
        /\ statusReq.pc = "done"
        /\ statusReq.response.status =
              (IF statusReq.recordStatus = 404 THEN 404 ELSE 502)
        /\ statusReq.response.error # Absent
        /\ statusReq.response.details = ErrBody("get_record", statusReq.recordStatus)
        /\ statusReq.response.payload = NoStatusPayload
        /\ Ops(statusReq.calls) = <<"get_record">>

\* C14 witness: the store answered the get-record with 500.
C14_Witness ==
    /\ statusReq.recordStatus = 500
    /\ statusReq.response.status = 502

\* An upstream call was made and did not give a 2xx answer.
FailedOutcome(o) ==
    o.kind = "throw" \/ (o.kind = "resp" /\ ~Is2xx(o.status))

\* C15: in GET /status/:uid, when the caption listing gives a non-2xx
\* answer or the request fails, the status call still answers 200 with the
\* payload of the fetched record, its captions being the empty list.
C15_CaptionsBestEffort ==
    FailedOutcome(statusReq.capOutcome) =>
        /\ statusReq.pc = "done"
        /\ statusReq.response.status = 200
        /\ statusReq.response.error = Absent
        /\ statusReq.response.payload.captions = <<>>
        /\ statusReq.response.payload.uid = statusReq.video.uid
        /\ statusReq.response.payload.state = statusReq.video.state
        /\ statusReq.response.payload.readyToStream = statusReq.video.readyToStream
        /\ statusReq.response.payload.duration = statusReq.video.duration
        /\ statusReq.response.payload.error = statusReq.video.errorReasonCode
        /\ statusReq.response.payload.signedPlaybackUrl.present
              = statusReq.video.playback.present
        /\ statusReq.response.payload.signedThumbnails # <<>>

\* C15 witness: the listing request failed for a record that is ready.
C15_Witness ==
    /\ statusReq.capOutcome = Throw
    /\ statusReq.video.readyToStream
    /\ statusReq.response.status = 200

\* The URL carries, in place of the video identifier, a token signed with
\* the private key.
IsSigned(url) ==
    /\ "signature" \in DOMAIN url.segment
    /\ url.segment.signature = PrivateKey

\* C16: when the fetched record has readyToStream = true, signedPlaybackUrl
\* and every signedThumbnails entry of the GET /status/:uid payload embed a
\* signed token in place of the video identifier.
C16_StatusUrlsSigned ==
    (statusReq.response.status = 200 /\ statusReq.response.payload.readyToStream) =>
        /\ IsSigned(statusReq.response.payload.signedPlaybackUrl)
        /\ \A i \in 1..Len(statusReq.response.payload.signedThumbnails) :
              IsSigned(statusReq.response.payload.signedThumbnails[i])

\* C17: the thumbnail timestamps of the GET /status/:uid payload are the
\* timestamps generateThumbnailUrls computes for the record's duration, so
\* none of them exceeds duration - 0.5.
C17_StatusTimesAreSampler ==
    (/\ statusReq.response.status = 200
     /\ statusReq.response.payload.duration.def
     /\ statusReq.response.payload.duration.v > 0) =>
        LET times == TimesOf(statusReq.response.payload.signedThumbnails)
            d == statusReq.response.payload.duration
        IN  /\ times = generateThumbnailTimes(DefaultCount, d)
            /\ \A i \in 1..Len(times) : times[i] <= d.v - SafetyMargin

\* C18: in POST /analyze/:uid, when the get-record call fails (a non-2xx
\* answer or a failed request) the request does not end at that step: the
\* duration is undefined, the pipeline goes on to the captions, and the
\* candidates are the default timestamps 1, 5, 10, 20, 30, 45, 60, 90.
C18_DurationNonFatal ==
    FailedOutcome(analyze.infoOutcome) =>
        /\ ~(analyze.pc = "done" /\ Ops(analyze.calls) = <<"get_record">>)
        /\ analyze.duration = Undefined
        /\ analyze.thumbnailUrls # <<>> =>
              TimesOf(analyze.thumbnailUrls) = FallbackTimes

\* C19: in POST /analyze/:uid, when the caption fetch gives a non-2xx
\* answer or the request fails, the pipeline goes on: there is no
\* transcript, every candidate is existence-checked, and a model call, if
\* one is made, carries no transcript.
C19_CaptionsNonFatal ==
    FailedOutcome(analyze.vttOutcome) =>
        /\ analyze.captions = Absent
        /\ analyze.thumbnailUrls # <<>>
        /\ IF analyze.pc = "validate"
           THEN Count(analyze.calls, "head") = analyze.idx - 1
           ELSE Count(analyze.calls, "head") = Len(analyze.thumbnailUrls)
        /\ \A i \in 1..Len(analyze.calls) :
              analyze.calls[i].op = "chat_completion" =>
                  analyze.calls[i].captions = Absent

\* C19 witness: the caption request failed and the analysis succeeded.
C19_Witness ==
    /\ analyze.vttOutcome = Throw
    /\ Count(analyze.calls, "chat_completion") = 1
    /\ analyze.response.success

\* The summary line of a transcript with n segments ending at timestamp end.
SummaryLine(n, end) ==
    <<"--- Total segments: ", ToString(n), ", Last timestamp: ">> \o end \o <<" ---">>

\* The transcript of the segments segs is laid out in lines: the title, the
\* header row, one row per segment, the summary.
CsvLaidOut(csvText, segs) ==
    LET n == Len(segs)
        csvLines == TextLines(csvText)
    IN  /\ Len(csvLines) = n + 3
        /\ csvLines[1] = <<"Audio Captions and Timestamps Reference for Video">>
        /\ csvLines[2] = <<"Start Time, End Time, Caption Text">>
        /\ \A k \in 1..n :
              /\ SubSeq(csvLines[k + 2], 1, Len(segs[k].start)) = segs[k].start
              /\ Includes(csvLines[k + 2], segs[k].end[1])
        /\ csvLines[n + 3] = SummaryLine(n, IF n > 0 THEN segs[n].end ELSE <<>>)

\* C21: for every input track, one that yields zero segments included, the
\* csvText returned by parseVTT consists of the title line, the header row,
\* one row per segment, and a trailing summary line that reports the number
\* of segments and the end timestamp of the last one.
C21_CsvLayout ==
    vtt.pc = "done" => CsvLaidOut(vtt.result.csvText, vtt.result.segments)

\* Reading a quoted CSV field of row from position i, just after its
\* opening quote: a doubled quote stands for one quote, a single one closes
\* the field; rest is what follows the closing quote.
RECURSIVE UnquoteFrom(_, _, _)
UnquoteFrom(row, i, acc) ==
    IF i > Len(row) THEN [closed |-> FALSE, text |-> acc, rest |-> 0]
    ELSE IF row[i] # QUOTE THEN UnquoteFrom(row, i + 1, Append(acc, row[i]))
    ELSE IF i + 1 <= Len(row) /\ row[i + 1] = QUOTE
    THEN UnquoteFrom(row, i + 2, Append(acc, QUOTE))
    ELSE [closed |-> TRUE, text |-> acc, rest |-> Len(row) - i]

\* Number of double quotes in a text.
Quotes(text) == Cardinality({i \in 1..Len(text) : text[i] = QUOTE})

\* The row of segment s is `start, end, ` and then one quoted field that
\* reads back as the text of s, every quote of the text being doubled.
RowQuoted(row, s) ==
    LET open == Len(s.start) + Len(s.end) + 5
        field == UnquoteFrom(row, open + 1, <<>>)
    IN  /\ Len(row) > open
        /\ row[open] = QUOTE
        /\ Quotes(SubSeq(row, 1, open - 1)) = 0
        /\ field.closed
        /\ field.rest = 0
        /\ field.text = s.text
        /\ Quotes(row) = 2 * Quotes(s.text) + 2

\* C22: in every CSV data row produced by parseVTT, each double quote of the
\* segment text appears doubled, and the text field is enclosed in exactly
\* one opening and one closing double quote (so the field reads back as the
\* text).
C22_QuotesDoubled ==
    vtt.pc = "done" =>
        LET segs == vtt.result.segments
            csvLines == TextLines(vtt.result.csvText)
        IN  /\ Len(csvLines) >= Len(segs) + 2
            /\ \A k \in 1..Len(segs) : RowQuoted(csvLines[k + 2], segs[k])

\* C22 witness: the cue `she said "hi"` gave a row whose field holds the
\* two quotes doubled, the second followed by the closing quote.
C22_Witness ==
    /\ vtt.pc = "done"
    /\ vtt.kinds = <<"quoted">>
    /\ Len(vtt.result.segments) = 1
    /\ TextLines(vtt.result.csvText)[3] =
          <<"00:00:01.000", ",", SP, "00:00:03.500", ",", SP, QUOTE,
            "she", SP, "said", SP, QUOTE, QUOTE, "hi", QUOTE, QUOTE, QUOTE>>

\* The segments parseVTT makes of the block of kind kind at position k when
\* it is the only block after the header.
aloneSegments(kind, k) ==
    parseVTT(<<MAGIC, NL, NL>> \o Join(blockLines(kind, k), <<NL>>)).segments

\* The segments of the blocks from position k on, each taken alone, the
\* blocks without a timing line left out.
RECURSIVE ExpectedSegments(_, _)
ExpectedSegments(kinds, k) ==
    IF k > Len(kinds) THEN <<>>
    ELSE (IF kinds[k] \in UntimedKinds THEN <<>> ELSE aloneSegments(kinds[k], k))
            \o ExpectedSegments(kinds, k + 1)

\* C23: parseVTT returns a result for every track; the header block and
\* every block without a timing line give no segment, and the segments are
\* those the other blocks give when each is parsed alone, in the order of
\* the track.
C23_SkipsWithoutFailing ==
    vtt.pc = "done" =>
        /\ vtt.result # NoParsed
        /\ vtt.result.csvText # <<>>
        /\ vtt.result.segments = ExpectedSegments(vtt.kinds, 1)

\* C23 witness: a comment, a cue and stray text, in this order, gave the
\* one segment of the cue.
C23_Witness ==
    /\ vtt.pc = "done"
    /\ vtt.kinds = <<"note", "plain", "stray">>
    /\ vtt.result.segments = <<cueSegment("plain", 2)>>

\* C24: when the duration is undefined, zero or negative,
\* generateThumbnailUrls uses the fallback timestamps 1, 5, 10, 20, 30, 45,
\* 60, 90 cut to the first count of them, and no clamping step changes them.
C24_FallbackUnmodified ==
    (sampler.pc = "done" /\ (~sampler.duration.def \/ sampler.duration.v <= 0)) =>
        sampler.times =
            SubSeq(<<10, 50, 100, 200, 300, 450, 600, 900>>, 1, Min(sampler.count, 8))

\* C24 witness: no duration and count = 4 gave 1, 5, 10, 20.
C24_Witness ==
    /\ sampler.pc = "done"
    /\ sampler.duration = Undefined
    /\ sampler.count = 4
    /\ sampler.times = <<10, 50, 100, 200>>

\* C25: the tier is chosen by the thresholds 10 and 60 exactly (d = 10 is in
\* the one-decimal tier, d = 60 in the whole-seconds tier), and for every
\* d > 60 with count = 8 the timestamps are 2%, 10%, 20%, 35%, 50%, 65%, 80%
\* and 95% of d, each rounded down to whole seconds.
C25_TiersAndOffsets ==
    (sampler.pc = "done" /\ sampler.count = 8 /\ sampler.duration.def) =>
        /\ sampler.duration.v = 100 =>
              sampler.times = <<1, 14, 27, 41, 54, 68, 81, 90>>
        /\ sampler.duration.v = 600 =>
              sampler.times = <<1, 80, 170, 250, 340, 420, 510, 590>>
        /\ sampler.duration.v > 600 =>
              sampler.times =
                  [i \in 1..8 |->
                      10 * ((sampler.duration.v
                                * <<2, 10, 20, 35, 50, 65, 80, 95>>[i]) \div 1000)]

\* The one store call of POST /upload/direct: a direct_upload session
\* request with requireSignedURLs false and no payload.
MintCall == [op |-> "direct_upload", length |-> NoLength, signed |-> "false"]

\* What POST /upload/direct answers to the store's answer.
DirectAnswered ==
    /\ (direct.outcome.kind = "resp" /\ Is2xx(direct.outcome.status)) =>
          /\ direct.response.status = 200
          /\ direct.response.success
          /\ direct.response.uid = DirectResult.uid
          /\ direct.response.uploadURL = DirectResult.uploadURL
    /\ (direct.outcome.kind = "resp" /\ ~Is2xx(direct.outcome.status)) =>
          /\ direct.response.status = 502
          /\ direct.response.details = ErrBody("direct_upload", direct.outcome.status)
          /\ direct.response.uid = Absent
          /\ direct.response.uploadURL = Absent

C30_SessionDeclared ==
    \A i \in 1..Len(upload.calls) :
        upload.calls[i].op = "tus_create" =>
            /\ upload.calls[i].length.present
            /\ upload.calls[i].length.n = upload.size
            /\ upload.calls[i].signed = "false"

ConfigErrors == {"OpenRouter API key not configured", "Signing keys not configured"}

SigningConfigured ==
    /\ env.CLOUDFLARE_STREAM_SIGNING_KEY_ID # Absent
    /\ env.CLOUDFLARE_STREAM_SIGNING_KEY_PEM # MissingPem

\* C27: missing configuration fails only the endpoint that needs it.  With
\* OPENROUTER_API_KEY absent, POST /analyze/:uid answers 500 "OpenRouter API
\* key not configured" before any upstream call; with the signing key id or
\* the PEM absent, the handler of POST /videos/:id/token answers 500
\* "Signing keys not configured" and the issuer is not invoked; an endpoint
\* answers with a configuration error only when its own value is missing,
\* and /upload/url, /upload/direct and /status/:uid never do.
C27_MissingConfigFailsItsEndpoint ==
    /\ env.OPENROUTER_API_KEY = Absent /\ analyze.pc # "idle" =>
          /\ analyze.pc = "done"
          /\ analyze.calls = <<>>
          /\ analyze.response =
                AnalyzeError(500, "OpenRouter API key not configured", NoBody)
    /\ ~SigningConfigured /\ tokenReq.pc = "done" /\ tokenReq.user # Absent =>
          /\ tokenReq.response = TokenError(500, "Signing keys not configured")
          /\ tokenReq.signed = NoSigned
          /\ Ops(tokenReq.calls) = <<"get_account">>
    /\ ~SigningConfigured => tokenReq.signed = NoSigned
    /\ env.OPENROUTER_API_KEY # Absent =>
          analyze.response.error # "OpenRouter API key not configured"
    /\ SigningConfigured =>
          tokenReq.response.error # "Signing keys not configured"
    /\ upload.response.error \notin ConfigErrors
    /\ direct.response.error \notin ConfigErrors
    /\ statusReq.response.error \notin ConfigErrors

\* C27 witness: the model key is missing and the analysis request has been
\* answered with the configuration error, with no upstream call made.
C27_Witness ==
    /\ env.OPENROUTER_API_KEY = Absent
    /\ analyze.pc = "done"
    /\ analyze.calls = <<>>
    /\ analyze.response.status = 500
    /\ analyze.response.error = "OpenRouter API key not configured"

\* The images of the chat-completion request analyzeVideo has sent.
SentImages == synth.calls[1].images

\* C28: the request analyzeVideo sends to the model backend carries at most
\* 8 image references: the first 8 of the supplied thumbnail URLs, in their
\* given order, however many are supplied.
C28_FirstEightImages ==
    synth.pc = "done" =>
        /\ Len(synth.calls) = 1
        /\ synth.calls[1].op = "chat_completion"
        /\ Len(SentImages) <= 8
        /\ Len(SentImages) = Min(8, Len(synth.thumbnailUrls))
        /\ \A i \in 1..Len(SentImages) : SentImages[i] = synth.thumbnailUrls[i].time

\* C28 witness: ten URLs with decreasing timestamps were supplied, and the
\* request carried the first eight.
C28_Witness ==
    /\ synth.pc = "done"
    /\ Len(synth.thumbnailUrls) = 10
    /\ SentImages = <<100, 90, 80, 70, 60, 50, 40, 30>>

\* The writes of request r the store applied.
AppliedBy(r) == {i \in 1..Len(store.applied) : store.applied[i].by = r}

\* C29: two POST /analyze/:uid requests for one uid are not mutually
\* excluded.  Neither is refused or fails because of the other (each ends
\* with a status of its own pipeline and makes the calls of a request that
\* runs alone), each write-back the store accepts is applied, and the
\* record's metadata is that of the write applied last.
C29_LastWriteWins ==
    /\ store.meta = IF store.applied = <<>> THEN NoMeta
                    ELSE store.applied[Len(store.applied)].meta
    /\ \A r \in Racers :
          /\ race[r].response.status \in {0, 200, 422, 500}
          /\ Cardinality(AppliedBy(r)) <= 1
          /\ race[r].pc = "done" /\ race[r].response.cfUpdateStatus.tag = "success"
                => Cardinality(AppliedBy(r)) = 1
          /\ \A i \in AppliedBy(r) :
                /\ store.applied[i].meta = updatePayload(race[r].analysis)
                /\ Count(race[r].calls, "chat_completion") = 1
                /\ Count(race[r].calls, "update_metadata") = 1

\* C29 witness: both requests called the model backend and both wrote back;
\* request 2's write was applied while request 1 was in flight, request 1's
\* different write was applied after it and is the record's metadata.
C29_Witness ==
    /\ \A r \in Racers :
          /\ Count(race[r].calls, "chat_completion") = 1
          /\ Count(race[r].calls, "update_metadata") = 1
          /\ race[r].response.cfUpdateStatus.tag = "success"
    /\ Len(store.applied) = 2
    /\ store.applied[1].by = 2 /\ store.applied[1].during = {1, 2}
    /\ store.applied[2].by = 1
    /\ store.applied[1].meta # store.applied[2].meta
    /\ store.meta = store.applied[2].meta

\* C31: whenever the store or the model backend answers an endpoint with a
\* non-success status, the error response carries the upstream response
\* body.  Read here on the two caption endpoints: a finished request whose
\* upstream call was answered with a non-2xx status has an error response
\* whose details are the body of that answer.
C31_UpstreamBodyCarried ==
    (capReq.pc = "done" /\ capReq.outcome.kind = "resp"
        /\ ~Is2xx(capReq.outcome.status)) =>
            /\ capReq.response.status >= 400
            /\ capReq.response.details =
                    ErrBody(capReq.calls[1].op, capReq.outcome.status)

\* The URLs of result r name the video videoId by the token of r alone: the
\* path is /<token>/manifest/video.m3u8 or /<token>/thumbnails/thumbnail.jpg.
TokenNamesVideo(r, videoId) ==
    /\ r.playback_url.segment = r.token
    /\ r.thumbnail_url.segment = r.token
    /\ r.playback_url.segment = r.thumbnail_url.segment
    /\ r.token # NoToken
    /\ r.playback_url.segment # RawId(videoId)
    /\ r.thumbnail_url.segment # RawId(videoId)
    /\ r.playback_url.path = "manifest/video.m3u8"
    /\ r.thumbnail_url.path = "thumbnails/thumbnail.jpg"

\* C32: in every result of generateSignedUrl the same signed token is the
\* path segment that stands in the place of the video identifier in both
\* playback_url and thumbnail_url, it is the returned token field, and the
\* raw videoId is a path segment of neither URL.
C32_TokenReplacesVideoId ==
    /\ issuer.result.tag = "ok" =>
            TokenNamesVideo(issuer.result, issuer.options.videoId)
    /\ tokenReq.signed.tag = "ok" =>
            TokenNamesVideo(tokenReq.signed, tokenReq.videoId)

\* C32 witness: a result for vid-1 on a custom domain with a thumbnail time.
C32_Witness ==
    /\ issuer.pc = "done"
    /\ issuer.result.tag = "ok"
    /\ issuer.options.videoId = "vid-1"
    /\ issuer.options.customDomain = "videos.example"
    /\ issuer.options.thumbnailTime = 5
    /\ issuer.result.thumbnail_url.segment.payload.sub = "vid-1"

\* The identifiers the store's session response supplied: the
\* stream-media-id header and the last path segment of the session URL.
SuppliedIds ==
    ({upload.mediaId} \ {Absent})
    \cup (IF upload.uploadUrl.present THEN {upload.uploadUrl.seg} \ {""} ELSE {})

\* C33: every successful stream-through response of POST /upload/url carries
\* a uid taken from the store's session response: the stream-media-id
\* header, otherwise the last path segment of the session URL with any query
\* removed; it is never a value the store did not supply.
C33_UidFromSession ==
    (upload.pc = "done" /\ upload.response.status = 200
        /\ upload.response.method = "stream-through") =>
            /\ upload.response.uid \in SuppliedIds
            /\ upload.response.uid =
                    IF upload.mediaId # Absent THEN upload.mediaId
                    ELSE upload.uploadUrl.seg

\* The calls of the process that executed importPemKey.
Importing == {i \in 1..Len(signer.log) : signer.log[i].imported}

\* C34: the private signing key is imported once per process lifetime: over
\* any sequence of generateSignedUrl calls in one process the PEM import is
\* performed at most once, and later calls reuse the key.
C34_ImportedOnce ==
    Cardinality(Importing) <= 1

\* The candidates whose existence check was answered with a 2xx status.
Passed == {i \in 1..Len(checks) : checks[i].kind = "resp" /\ Is2xx(checks[i].status)}

\* The candidates among the first k that passed, in the sampler's order.
RECURSIVE PassedUpTo(_)
PassedUpTo(k) ==
    IF k = 0 THEN <<>>
    ELSE IF k \in Passed THEN Append(PassedUpTo(k - 1), analyze.thumbnailUrls[k])
    ELSE PassedUpTo(k - 1)

\* The chat-completion calls the request has issued.
ModelCalls == {i \in 1..Len(analyze.calls) : analyze.calls[i].op = "chat_completion"}

\* C35: in POST /analyze/:uid the image URLs passed to the model are exactly
\* the candidate URLs whose existence check returned 2xx, in the sampler's
\* order; a candidate whose check returns non-2xx or throws is discarded
\* without aborting the analysis, and no unvalidated URL reaches the model.
C35_OnlyValidatedImages ==
    /\ Count(analyze.calls, "head") = Len(checks)
    /\ analyze.validatedUrls = PassedUpTo(Len(checks))
    /\ \A i \in ModelCalls :
            /\ Len(checks) = Len(analyze.thumbnailUrls)
            /\ analyze.calls[i].images = TimesOf(PassedUpTo(Len(checks)))
    /\ (checks # <<>> /\ Len(checks) < Len(analyze.thumbnailUrls)) =>
            analyze.pc = "validate"
    /\ (Len(checks) = Len(analyze.thumbnailUrls) /\ Passed # {}) =>
            analyze.response.status \in {0, 200}
    /\ analyze.response.status = 422 => Passed = {}

\* C35 witness: the checks of candidates 1 and 7 threw, those of 2 and 5
\* were answered 404, and the model was sent candidates 3, 4, 6 and 8.
C35_Witness ==
    /\ analyze.pc = "done"
    /\ analyze.response.status = 200
    /\ checks = <<Throw, Resp(404), Resp(200), Resp(200), Resp(404), Resp(200),
                  Throw, Resp(200)>>
    /\ \E i \in ModelCalls :
            analyze.calls[i].images =
                <<analyze.thumbnailUrls[3].time, analyze.thumbnailUrls[4].time,
                  analyze.thumbnailUrls[6].time, analyze.thumbnailUrls[8].time>>

\* The update-metadata calls the request has issued.
UpdateCalls == {i \in 1..Len(analyze.calls) : analyze.calls[i].op = "update_metadata"}

\* The model call was answered with 2xx and a content that parses as JSON.
ModelParsed ==
    /\ analyze.modelOutcome.kind = "resp"
    /\ Is2xx(analyze.modelOutcome.status)
    /\ analyze.content.present
    /\ analyze.content.wellFormed

\* C36: in POST /analyze/:uid the update-metadata call is issued only after
\* the model call returned a 2xx response whose content parsed as JSON; on
\* every terminal failure path (missing API key, zero validated keyframes,
\* model non-2xx, empty content, malformed JSON) no update is issued.
C36_UpdateOnlyAfterParsedModel ==
    /\ \A i \in UpdateCalls :
            /\ ModelParsed
            /\ \E j \in ModelCalls : j < i
    /\ (analyze.pc = "done" /\ analyze.response.status # 200) => UpdateCalls = {}
    /\ (analyze.pc = "done" /\ ~ModelParsed) =>
            /\ UpdateCalls = {}
            /\ analyze.response.status \in {422, 500}

\* C36 witness: the model answered 200 with a text that is not JSON; the
\* request ended with 500 and no update-metadata call.
C36_Witness ==
    /\ analyze.pc = "done"
    /\ analyze.modelOutcome = Resp(200)
    /\ analyze.content = Content("none", FALSE, NoResult)
    /\ analyze.response.status = 500
    /\ ModelCalls # {}
    /\ UpdateCalls = {}

\* C37: every success response of POST /analyze/:uid has cfUpdateStatus
\* 'success', 'failed: <status>' or 'error'; it is 'success' exactly when the
\* update-metadata call returned 2xx, and the initial 'skipped' is never
\* returned.
C37_UpdateStatusReported ==
    (analyze.pc = "done" /\ analyze.response.status = 200) =>
        LET st == analyze.response.cfUpdateStatus
            accepted == /\ analyze.updateOutcome.kind = "resp"
                        /\ Is2xx(analyze.updateOutcome.status)
        IN  /\ st.tag \in {"success", "failed", "error"}
            /\ st.tag = "success" <=> accepted
            /\ st.tag = "failed" =>
                    /\ analyze.updateOutcome.kind = "resp"
                    /\ st.status = analyze.updateOutcome.status
            /\ st.tag = "error" => analyze.updateOutcome.kind \in {"throw", "none"}

\* C37 witness: the store answered the update with 404 and the success
\* response reports 'failed: 404'.
C37_Witness ==
    /\ analyze.pc = "done"
    /\ analyze.response.status = 200
    /\ analyze.updateOutcome = Resp(404)
    /\ analyze.response.cfUpdateStatus = UpdateStatus("failed", 404)

\* The provider accepted the bearer token of request r.
Accepted(r) == r.authOutcome.kind = "resp" /\ Is2xx(r.authOutcome.status)

\* What C38 says of a request r to a route under /videos whose handler has
\* run when ran holds.
Guarded(r, ran) ==
    /\ (ran \/ r.pc = "handler") =>
            /\ Accepted(r)
            /\ r.authHeader = "Bearer session"
            /\ Ops(r.calls) = <<"get_account">>
    /\ (r.pc = "done" /\ r.authHeader # "Bearer session") =>
            /\ r.response.status = 401
            /\ r.calls = <<>>
            /\ ~ran
    /\ (r.authOutcome.kind = "resp" /\ ~Is2xx(r.authOutcome.status)) =>
            /\ r.pc = "done"
            /\ r.response.status = 401
            /\ ~ran

\* C38: for every route under /videos the route handler runs only after the
\* identity provider accepted the bearer token (2xx from /v2/account); a
\* missing or non-Bearer Authorization header yields 401 without contacting
\* the provider, and a non-2xx from the provider yields 401 without running
\* the handler.
C38_VideosRoutesGuarded ==
    /\ Guarded(tokenReq, tokenReq.now # 0)
    /\ Guarded(videosReq, videosReq.handled)

\* C38 witness: the provider answered 404 to the session of a request to
\* GET /videos/:id, which ended with 401.
C38_Witness ==
    /\ videosReq.route = "GET /videos/:id"
    /\ videosReq.pc = "done"
    /\ videosReq.authOutcome = Resp(404)
    /\ videosReq.response = TokenError(401, "Invalid or expired session")
    /\ ~videosReq.handled

====
